---------------------------- MODULE Spec2Model ----------------------------
(***************************************************************************)
(* A model of pcbzip (src/pcbzip/pcbzip.py): the gerber archive builder    *)
(* (PCBFileProcessor.zipFiles), the layer stack sorter                     *)
(* (PCBFileProcessor.getSortedFileList), the BOM merge                     *)
(* (PCBFileProcessor._mergeBOMFiles), the placement file rewrite           *)
(* (PCBFileProcessor._processPlcaementFile), the BOM editor                *)
(* (PCBFileProcessor._processBOMFile), the viewer                          *)
(* (PCBFileProcessor.gerbvFiles), the choice of the BOM to edit            *)
(* (PCBFileProcessor._getBomFile), the menu of the parts search            *)
(* (JLCPCBDatabase.search with DBSearch), and __main__ with its exception  *)
(* handlers.                                                               *)
(*                                                                         *)
(* Python strings are sequences of one-character strings, so that          *)
(* str.endswith, str.split, str.lower and str.rstrip are computed on the   *)
(* characters as Python computes them.                                     *)
(***************************************************************************)
EXTENDS Integers, Sequences, FiniteSets, TLC

VARIABLES
    \* ---- getSortedFileList ----
    fileList,         \* the argument of getSortedFileList (extracted paths)
    mfgFileList,      \* the local of that name; <<>> while it is unbound
    sortedFileList,   \* the list returned
    sortPc,           \* "idle", "returned" or "raised"
    \* ---- zipFiles ----
    cwd,              \* listdir(getcwd()): a sequence of [name, isFile]
    folders,          \* the output folders on disk, each <<project, version>>
    archives,         \* the zip files on disk: [folder, mfg, entries]
    mfg,              \* the vendor id selected ("" before a selection)
    projectName,      \* self._projectName
    projectVersion,   \* self._projectVersion
    overWrite,        \* self._overWrite
    expectedFiles,    \* the copy of the required list taken before the scan
    requiredFiles,    \* the required list, mutated by the scan
    gerberFileList,   \* the allowlisted files found
    zipPc,            \* "idle", "none", "returned", "MakeError"
    outputBoms,       \* per output folder that holds one, the lines of its BOM copy
    \* ---- _mergeBOMFiles ----
    kicadBOMFile,     \* the lines of the fresh KiCad BOM, as readlines() gives them
    bomOutputFile,    \* the lines of the annotated BOM copy on disk
    bomOutputFileLines, \* the lines loaded from it at line 1115
    matchLog,         \* per fresh line, what _getExistingBOMLine returned
    mergePc,          \* "idle", "merged" or "IndexError"
    \* ---- _processPlcaementFile ----
    placementFiles,   \* per side, the KiCad placement file: [exists, lines]
    outputPlacementFiles, \* per side, the placement file of the output folder
    assySide,         \* the side _getAssySide returned ("" before)
    placePc,          \* "idle", "saved", "raised" or "notFound"
    \* ---- _processBOMFile ----
    bomFile,          \* the lines of the file named bomFile, on disk
    lineIndex,        \* the local of that name
    typed,            \* what the user typed at the last prompt
    entered,          \* per line index, the part number text last typed for it
    editStep,         \* the branch of the loop body taken last
    editPc,           \* "editing", "done", "aborted", "raised", "interrupted"
    \* ---- gerbvFiles ----
    zipFile,          \* the argument of that name: [kind, names]
    tempDirs,         \* the directories of the temporary area, on disk
    tempFiles,        \* the files in them, on disk
    dirpath,          \* the local of that name (<<>> before mkdtemp)
    viewFileList,     \* the local fileList
    cmdLine,          \* the viewer command run: [program, files]
    viewerStatus,     \* what system() returned
    pending,          \* the exception raised in the try block ("" for none)
    viewPc,           \* "start", "open", "extract", "sort", "view", "finally",
                      \* "returned" or "raised"
    \* ---- __main__ ----
    options,          \* the parsed command line
    errorLines,       \* the number of "ERROR: ..." lines printed
    traceback,        \* TRUE when the interpreter printed a traceback
    exitStatus,       \* the exit status of the process, once mainPc = "exited"
    mainPc,           \* the call main is in, or "exited"
    calls,            \* the methods of PCBFileProcessor main has called, in order
    zipResult,        \* what zipFiles returned: "", "archive" or "none"
    \* ---- _getBomFile ----
    parentFiles,      \* the names of the files of the parent directory
    getBomPc,         \* "idle", "returned", "notFound", "noCopy" or "IndexError"
    \* ---- DBSearch and JLCPCBDatabase.search ----
    dbFieldList,      \* DBSearch.fieldList, as the list split(",") gives
    columnWidthList,  \* DBSearch.columnWidthList, as the list split(",") gives
    orderFieldID,     \* DBSearch.orderFieldID
    cfgFile,          \* the config file: <<>> when absent, else the record saved
    searchPc          \* "menu" or "raised"

sortVars  == <<fileList, mfgFileList, sortedFileList, sortPc>>
zipVars   == <<cwd, folders, archives, mfg, projectName, projectVersion,
               overWrite, expectedFiles, requiredFiles, gerberFileList, zipPc,
               outputBoms>>
bomVars   == <<kicadBOMFile, bomOutputFile, bomOutputFileLines, matchLog, mergePc>>
placeVars == <<placementFiles, outputPlacementFiles, assySide, placePc>>
editVars  == <<bomFile, lineIndex, typed, entered, editStep, editPc>>
viewVars  == <<zipFile, tempDirs, tempFiles, dirpath, viewFileList, cmdLine,
               viewerStatus, pending, viewPc>>
mainVars  == <<options, errorLines, traceback, exitStatus, mainPc>>
cliVars   == <<calls, zipResult>>
assyVars  == <<parentFiles, getBomPc>>
searchVars == <<dbFieldList, columnWidthList, orderFieldID, cfgFile, searchPc>>
restVars  == <<placeVars, editVars, viewVars, mainVars, cliVars, assyVars, searchVars>>
vars      == <<sortVars, zipVars, bomVars, restVars>>

\* The components an operation does not use stay in these states.
PlaceIdle ==
    /\ placementFiles = <<>> /\ outputPlacementFiles = <<>>
    /\ assySide = "" /\ placePc = "unused"

EditIdle ==
    /\ bomFile = <<>> /\ lineIndex = 0 /\ typed = <<>> /\ entered = <<>>
    /\ editStep = "" /\ editPc = "unused"

MainIdle ==
    /\ options = <<>> /\ errorLines = 0 /\ traceback = FALSE
    /\ exitStatus = 0 /\ mainPc = "unused"

ViewIdle ==
    /\ zipFile = <<>> /\ tempDirs = {} /\ tempFiles = {} /\ dirpath = <<>>
    /\ viewFileList = <<>> /\ cmdLine = <<>> /\ viewerStatus = 0
    /\ pending = "" /\ viewPc = "unused"

CliIdle == calls = <<>> /\ zipResult = ""

AssyIdle == parentFiles = {} /\ getBomPc = "unused"

SearchIdle ==
    /\ dbFieldList = <<>> /\ columnWidthList = <<>> /\ orderFieldID = 0
    /\ cfgFile = <<>> /\ searchPc = "unused"

RestIdle ==
    PlaceIdle /\ EditIdle /\ ViewIdle /\ MainIdle /\ CliIdle /\ AssyIdle /\ SearchIdle

-----------------------------------------------------------------------------
(* Bounds of the checked instances.                                        *)

\* Required files left out of an export set.
MaxMissing == 1
\* Extra directory entries added to an export set.
MaxExtras == 2
\* Places by which an archive's name list is rotated before it is sorted.
MaxRot == 1
\* Length of the short path lists given to the sorter, every order of each.
MaxSmallLen == 3

-----------------------------------------------------------------------------
(* Python string and list primitives.                                      *)

\* str.endswith(suffix)
EndsWith(s, suffix) ==
    /\ Len(suffix) <= Len(s)
    /\ SubSeq(s, Len(s) - Len(suffix) + 1, Len(s)) = suffix

\* The elements of seq at the indices in K, in order.
RECURSIVE PickFrom(_, _, _)
PickFrom(seq, K, i) ==
    IF i > Len(seq) THEN <<>>
    ELSE (IF i \in K THEN <<seq[i]>> ELSE <<>>) \o PickFrom(seq, K, i + 1)

Reverse(seq) == [i \in 1..Len(seq) |-> seq[Len(seq) + 1 - i]]

Rotate(seq, r) ==
    IF Len(seq) = 0 THEN seq
    ELSE [i \in 1..Len(seq) |-> seq[((i - 1 + r) % Len(seq)) + 1]]

\* A listing order: the base order rotated and possibly reversed.
Arrange(seq, r, rev) == IF rev THEN Reverse(Rotate(seq, r)) ELSE Rotate(seq, r)

SmallSubsets(S, n) == {K \in SUBSET S : Cardinality(K) <= n}

Range(seq) == {seq[i] : i \in 1..Len(seq)}

-----------------------------------------------------------------------------
(* The vendor tables.                                                      *)

VENDOR_SEEDSTUDIO == "seedstudio"
VENDOR_PCBWAY == "pcbway"
VENDOR_JLCPCB == "jlcpcb"

SEED_STUDIO_REQUIRED_FILES ==
    << <<"F",".","S","i","l","k","S",".","g","t","o">>,
       <<"F",".","C","u",".","g","t","l">>,
       <<"F",".","P","a","s","t","e",".","g","t","p">>,
       <<"F",".","M","a","s","k",".","g","t","s">>,
       <<"B",".","P","a","s","t","e",".","g","b","p">>,
       <<"B",".","C","u",".","g","b","l">>,
       <<"B",".","S","i","l","k","S",".","g","b","o">>,
       <<"B",".","M","a","s","k",".","g","b","s">>,
       <<"D","w","g","s",".","U","s","e","r",".","g","b","r">>,
       <<"E","d","g","e",".","C","u","t","s",".","g","m","1">>,
       <<".","d","r","l">> >>

\* PCBWAY_REQUIRED_FILES with one entry drifted to the bare extension.
PCBWAY_REQUIRED_FILES_Drifted ==
    << <<"F",".","C","u",".","g","b","r">>,
       <<"F",".","S","i","l","k","S",".","g","b","r">>,
       <<"F",".","M","a","s","k",".","g","b","r">>,
       <<"B",".","C","u",".","g","b","r">>,
       <<"B",".","S","i","l","k","S",".","g","b","r">>,
       <<".","g","b","r">>,
       <<"B",".","M","a","s","k",".","g","b","r">>,
       <<".","d","r","l">> >>

PCBWAY_REQUIRED_FILES ==
    << <<"F",".","C","u",".","g","b","r">>,
       <<"F",".","S","i","l","k","S",".","g","b","r">>,
       <<"F",".","M","a","s","k",".","g","b","r">>,
       <<"B",".","C","u",".","g","b","r">>,
       <<"B",".","S","i","l","k","S",".","g","b","r">>,
       <<"E","d","g","e",".","C","u","t","s",".","g","b","r">>,
       <<"B",".","M","a","s","k",".","g","b","r">>,
       <<".","d","r","l">> >>

JLCPCB_REQUIRED_FILES ==
    << <<"F","_","C","u",".","g","b","r">>,
       <<"F","_","S","i","l","k","S",".","g","b","r">>,
       <<"F","_","M","a","s","k",".","g","b","r">>,
       <<"B","_","C","u",".","g","b","r">>,
       <<"B","_","S","i","l","k","S",".","g","b","r">>,
       <<"E","d","g","e","_","C","u","t","s",".","g","b","r">>,
       <<"B","_","M","a","s","k",".","g","b","r">>,
       <<".","d","r","l">> >>

JLCPCB_REQUIRED_FILES_V6 ==
    << <<"F","_","C","u",".","g","t","l">>,
       <<"B","_","C","u",".","g","b","l">>,
       <<"F","_","P","a","s","t","e",".","g","t","p">>,
       <<"B","_","P","a","s","t","e",".","g","b","p">>,
       <<"F","_","S","i","l","k","s","c","r","e","e","n",".","g","t","o">>,
       <<"B","_","S","i","l","k","s","c","r","e","e","n",".","g","b","o">>,
       <<"F","_","M","a","s","k",".","g","t","s">>,
       <<"B","_","M","a","s","k",".","g","b","s">>,
       <<"E","d","g","e","_","C","u","t","s",".","g","m","1">>,
       <<".","d","r","l">> >>

\* The extensions zipFiles accepts as gerber files.
GERBER_EXTENSIONS ==
    << <<".","g","b","r">>,
       <<".","d","r","l">>,
       <<".","g","t","p">>,
       <<".","g","b","p">>,
       <<".","g","b","l">>,
       <<".","g","t","l">>,
       <<".","g","t","o">>,
       <<".","g","b","o">>,
       <<".","g","b","s">>,
       <<".","g","t","s">>,
       <<".","g","m","1">> >>

-----------------------------------------------------------------------------
(* The files of the checked instances: what a CAD export leaves in the     *)
(* working directory, and what an archive holds.                           *)

DrlSuffix == <<".","d","r","l">>
ProjectPrefix == <<"p","-">>
DrillStem == <<"P","T","H">>

\* The file a KiCad export writes for one required suffix.
ExportName(suffix) ==
    IF suffix = DrlSuffix THEN ProjectPrefix \o DrillStem \o suffix
    ELSE ProjectPrefix \o suffix

ExportSet(req) == [i \in 1..Len(req) |-> [name |-> ExportName(req[i]), isFile |-> TRUE]]

AllRequired ==
    {SEED_STUDIO_REQUIRED_FILES, PCBWAY_REQUIRED_FILES,
     JLCPCB_REQUIRED_FILES, JLCPCB_REQUIRED_FILES_V6}

\* A second drill file, an allowlisted file no vendor requires, a file that is
\* not a gerber file, and a directory whose name ends like a gerber file.
ExtraEntries ==
    << [name |-> <<"p","-","N","P","T","H",".","d","r","l">>, isFile |-> TRUE],
       [name |-> <<"p","-","F","_","F","a","b",".","g","b","r">>, isFile |-> TRUE],
       [name |-> <<"p",".","c","s","v">>, isFile |-> TRUE],
       [name |-> <<"o","l","d",".","g","b","r">>, isFile |-> FALSE] >>

\* Directory listings: one vendor's export set, less at most MaxMissing of its
\* files, plus at most MaxExtras extra entries, in table order or reversed.
ListingsOf(req) ==
    { Arrange(PickFrom(ExportSet(req), (1..Len(req)) \ D, 1)
                \o PickFrom(ExtraEntries, X, 1), 0, rev) :
        D \in SmallSubsets(1..Len(req), MaxMissing),
        X \in SmallSubsets(1..Len(ExtraEntries), MaxExtras),
        rev \in BOOLEAN }

Listings == UNION {ListingsOf(req) : req \in AllRequired}

\* tempfile.mkdtemp()
TempDir == <<"t","/">>

\* join(dirpath, name) for every regular file of a listing
PathsOf(listing) ==
    LET files == SelectSeq(listing, LAMBDA e : e.isFile)
    IN  [i \in 1..Len(files) |-> TempDir \o files[i].name]

SmallPaths ==
    { TempDir \o ExportName(JLCPCB_REQUIRED_FILES_V6[1]),
      TempDir \o ExportName(JLCPCB_REQUIRED_FILES_V6[2]),
      TempDir \o ExportName(PCBWAY_REQUIRED_FILES[1]),
      TempDir \o ExportName(DrlSuffix),
      TempDir \o ExtraEntries[1].name,
      TempDir \o ExtraEntries[3].name }

SmallLists == UNION {[1..n -> SmallPaths] : n \in 0..MaxSmallLen}

\* The path lists given to the sorter: every short list, and the files of the
\* listings in the orders above, rotated by up to MaxRot places.
SorterInputs ==
    SmallLists \cup {Rotate(PathsOf(l), r) : l \in Listings, r \in 0..MaxRot}

-----------------------------------------------------------------------------
(* PCBFileProcessor.getSortedFileList                                      *)

\* The first loop (lines 850-866) with no break: the last matching path wins.
RECURSIVE InferMfgFileList_NoBreak(_, _)
InferMfgFileList_NoBreak(list, i) ==
    IF i > Len(list) THEN <<>>
    ELSE LET rest == InferMfgFileList_NoBreak(list, i + 1)
         IN  IF rest # <<>> THEN rest
             ELSE IF EndsWith(list[i], PCBWAY_REQUIRED_FILES[1])
                  THEN PCBWAY_REQUIRED_FILES
             ELSE IF EndsWith(list[i], SEED_STUDIO_REQUIRED_FILES[1])
                  THEN SEED_STUDIO_REQUIRED_FILES
             ELSE IF EndsWith(list[i], JLCPCB_REQUIRED_FILES[1])
                  THEN JLCPCB_REQUIRED_FILES
             ELSE IF EndsWith(list[i], JLCPCB_REQUIRED_FILES_V6[1])
                  THEN JLCPCB_REQUIRED_FILES_V6
             ELSE <<>>

\* The first loop looking at the first path only.
InferMfgFileList_FirstOnly(list, i) ==
    IF i > Len(list) THEN <<>>
    ELSE IF EndsWith(list[i], PCBWAY_REQUIRED_FILES[1])
         THEN PCBWAY_REQUIRED_FILES
    ELSE IF EndsWith(list[i], SEED_STUDIO_REQUIRED_FILES[1])
         THEN SEED_STUDIO_REQUIRED_FILES
    ELSE IF EndsWith(list[i], JLCPCB_REQUIRED_FILES[1])
         THEN JLCPCB_REQUIRED_FILES
    ELSE IF EndsWith(list[i], JLCPCB_REQUIRED_FILES_V6[1])
         THEN JLCPCB_REQUIRED_FILES_V6
    ELSE <<>>

\* The first loop (lines 850-866), from the i-th path on: the value bound to
\* mfgFileList, or <<>> when the loop ends with the local unbound.
RECURSIVE InferMfgFileList(_, _)
InferMfgFileList(list, i) ==
    IF i > Len(list) THEN <<>>
    ELSE IF EndsWith(list[i], PCBWAY_REQUIRED_FILES[1])
         THEN PCBWAY_REQUIRED_FILES
    ELSE IF EndsWith(list[i], SEED_STUDIO_REQUIRED_FILES[1])
         THEN SEED_STUDIO_REQUIRED_FILES
    ELSE IF EndsWith(list[i], JLCPCB_REQUIRED_FILES[1])
         THEN JLCPCB_REQUIRED_FILES
    ELSE IF EndsWith(list[i], JLCPCB_REQUIRED_FILES_V6[1])
         THEN JLCPCB_REQUIRED_FILES_V6
    ELSE InferMfgFileList(list, i + 1)

\* The inner loop (lines 870-872) for one mfgFileEnd, from the i-th path on:
\* what it appends to sortedFileList.
RECURSIVE AppendMatching(_, _, _)
AppendMatching(list, mfgFileEnd, i) ==
    IF i > Len(list) THEN <<>>
    ELSE (IF EndsWith(list[i], mfgFileEnd) THEN <<list[i]>> ELSE <<>>)
            \o AppendMatching(list, mfgFileEnd, i + 1)

\* The two loops exchanged: the paths are taken in input order.
RECURSIVE SortLoop_InputOrder(_, _, _)
SortLoop_InputOrder(mfgList, list, a) ==
    IF a > Len(list) THEN <<>>
    ELSE (IF \E k \in 1..Len(mfgList) : EndsWith(list[a], mfgList[k])
          THEN <<list[a]>> ELSE <<>>)
            \o SortLoop_InputOrder(mfgList, list, a + 1)

\* The outer loop (lines 868-872), from the a-th required suffix on: what it
\* appends to sortedFileList.
RECURSIVE SortLoop(_, _, _)
SortLoop(mfgList, list, a) ==
    IF a > Len(mfgList) THEN <<>>
    ELSE AppendMatching(list, mfgList[a], 1) \o SortLoop(mfgList, list, a + 1)

\* getSortedFileList with mfgFileList = [] set before the first loop.
getSortedFileList_Default(list) ==
    LET m == InferMfgFileList(list, 1)
    IN  [raised |-> FALSE, mfgFileList |-> m, value |-> SortLoop(m, list, 1)]

\* getSortedFileList(fileList): reading the unbound local mfgFileList at line
\* 869 raises UnboundLocalError; nothing is returned then.
getSortedFileList(list) ==
    LET m == InferMfgFileList(list, 1)
    IN  IF m = <<>>
        THEN [raised |-> TRUE, mfgFileList |-> m, value |-> <<>>]
        ELSE [raised |-> FALSE, mfgFileList |-> m, value |-> SortLoop(m, list, 1)]

SortIdle ==
    /\ fileList = <<>> /\ mfgFileList = <<>> /\ sortedFileList = <<>>
    /\ sortPc = "unused"

\* A call of getSortedFileList on the list in fileList.
GetSortedFileList ==
    /\ sortPc = "idle"
    /\ LET r == getSortedFileList(fileList)
       IN  /\ mfgFileList' = r.mfgFileList
           /\ sortedFileList' = r.value
           /\ sortPc' = IF r.raised THEN "raised" ELSE "returned"
    /\ UNCHANGED <<fileList, zipVars, bomVars, restVars>>

-----------------------------------------------------------------------------
(* PCBFileProcessor.zipFiles                                               *)

\* What the user types at "Manufacturer: ".
VendorChoices == {"1", "2", "3", "4", "5"}
\* What the user types for the project name and for the board version.
ProjectNames == {"", "p"}
ProjectVersions == {"", "1"}

\* getSelectedVendor() for the text typed: the copy of the vendor's table and
\* the vendor id, or MakeError for anything but 1, 2, 3 or 4.
getSelectedVendor(choice) ==
    IF choice \notin {"1", "2", "3", "4"}
    THEN [raised |-> TRUE, requiredFiles |-> <<>>, mfg |-> ""]
    ELSE IF choice = "1"
    THEN [raised |-> FALSE, requiredFiles |-> SEED_STUDIO_REQUIRED_FILES,
          mfg |-> VENDOR_SEEDSTUDIO]
    ELSE IF choice = "2"
    THEN [raised |-> FALSE, requiredFiles |-> PCBWAY_REQUIRED_FILES,
          mfg |-> VENDOR_PCBWAY]
    ELSE IF choice = "3"
    THEN [raised |-> FALSE, requiredFiles |-> JLCPCB_REQUIRED_FILES,
          mfg |-> VENDOR_JLCPCB]
    ELSE [raised |-> FALSE, requiredFiles |-> JLCPCB_REQUIRED_FILES_V6,
          mfg |-> VENDOR_JLCPCB]

\* The test of lines 970-980 on one file name.
IsGerberFile(f) ==
    \E k \in 1..Len(GERBER_EXTENSIONS) : EndsWith(f, GERBER_EXTENSIONS[k])

\* Lines 966-981 with the isfile test left out.
GerberFileList_NoIsFile(listing) ==
    LET found == SelectSeq(listing, LAMBDA e : IsGerberFile(e.name))
    IN  [i \in 1..Len(found) |-> found[i].name]

\* Lines 966-981: the regular files of the directory that pass the test, in
\* listdir order.
GerberFileList(listing) ==
    LET found == SelectSeq(listing, LAMBDA e : e.isFile /\ IsGerberFile(e.name))
    IN  [i \in 1..Len(found) |-> found[i].name]

\* list.remove(x): the list without the first element equal to x.
RECURSIVE ListRemove(_, _)
ListRemove(list, x) ==
    IF list = <<>> THEN <<>>
    ELSE IF Head(list) = x THEN Tail(list)
    ELSE <<Head(list)>> \o ListRemove(Tail(list), x)

\* The inner loop with the receiver and the argument of endswith exchanged:
\* reqF.endswith(currentF).
RECURSIVE RemoveSatisfied_Swapped(_, _, _)
RemoveSatisfied_Swapped(req, currentF, i) ==
    IF i > Len(req) THEN req
    ELSE IF EndsWith(req[i], currentF)
         THEN RemoveSatisfied_Swapped(ListRemove(req, req[i]), currentF, i + 1)
         ELSE RemoveSatisfied_Swapped(req, currentF, i + 1)

\* The file's extension alone.
Extension(f) == SubSeq(f, Len(f) - 3, Len(f))

\* The inner loop comparing the extensions only.
RECURSIVE RemoveSatisfied_ExtensionOnly(_, _, _)
RemoveSatisfied_ExtensionOnly(req, currentF, i) ==
    IF i > Len(req) THEN req
    ELSE IF Len(currentF) >= 4 /\ Extension(currentF) = Extension(req[i])
         THEN RemoveSatisfied_ExtensionOnly(ListRemove(req, req[i]), currentF, i + 1)
         ELSE RemoveSatisfied_ExtensionOnly(req, currentF, i + 1)

\* The inner loop (lines 984-986) for one file, at position i of the list
\* being iterated.  The list iterator keeps its index while remove() shifts
\* the later elements down, so the element after a removed one is not visited.
RECURSIVE RemoveSatisfied(_, _, _)
RemoveSatisfied(req, currentF, i) ==
    IF i > Len(req) THEN req
    ELSE IF EndsWith(currentF, req[i])
         THEN RemoveSatisfied(ListRemove(req, req[i]), currentF, i + 1)
         ELSE RemoveSatisfied(req, currentF, i + 1)

\* The outer loop (lines 983-986): the required list after the first k gerber
\* files have been scanned.
RECURSIVE ScanFiles(_, _, _)
ScanFiles(req, files, k) ==
    IF k = 0 THEN req
    ELSE RemoveSatisfied(ScanFiles(req, files, k - 1), files[k], 1)

\* The archive written by lines 999-1003 holding only the required files.
ZipEntries_RequiredOnly(files, expected) ==
    SelectSeq(files, LAMBDA f : \E k \in 1..Len(expected) : EndsWith(f, expected[k]))

\* The entries written by lines 999-1003: every file of gerberFileList.
ZipEntries(files, expected) == files

\* shutil.rmtree(folder) on the archives: those of the folder are gone.
RmTree(zips, folder) == {z \in zips : z.folder # folder}

\* shutil.rmtree(folder) on the BOM copies: that of the folder is gone.
RmTreeBoms(boms, folder) == [f \in DOMAIN boms \ {folder} |-> boms[f]]

\* zipfile.ZipFile(opFile, "w") and the writes: the archive at that path is
\* replaced.
WriteZip(zips, folder, vendor, entries) ==
    {z \in zips : ~(z.folder = folder /\ z.mfg = vendor)}
        \cup {[folder |-> folder, mfg |-> vendor, entries |-> entries]}

ZipIdle ==
    /\ cwd = <<>> /\ folders = {} /\ archives = {}
    /\ mfg = "" /\ projectName = "" /\ projectVersion = "" /\ overWrite = FALSE
    /\ expectedFiles = <<>> /\ requiredFiles = <<>> /\ gerberFileList = <<>>
    /\ zipPc = "unused" /\ outputBoms = <<>>

\* getSelectedVendor raises MakeError (line 926): nothing else has happened.
ZipFilesBadVendor(choice) ==
    /\ zipPc = "idle"
    /\ getSelectedVendor(choice).raised
    /\ zipPc' = "MakeErrorVendor"
    /\ UNCHANGED <<cwd, folders, archives, mfg, projectName, projectVersion,
                   overWrite, expectedFiles, requiredFiles, gerberFileList, outputBoms>>
    /\ UNCHANGED <<sortVars, bomVars, restVars>>

\* zipFiles() from line 950 on, for a valid vendor choice, the name and version
\* typed and the answer to "Overwrite ?" (asked when the folder exists).
ZipFilesVendor(choice, name, version, answer) ==
    LET sel == getSelectedVendor(choice)
        folder == <<name, version>>
        \* _makeOutputFolder (lines 1057-1068)
        existed == folder \in folders
        zips == IF existed /\ answer THEN RmTree(archives, folder) ELSE archives
        boms == IF existed /\ answer THEN RmTreeBoms(outputBoms, folder) ELSE outputBoms
        files == GerberFileList(cwd)
        missing == ScanFiles(sel.requiredFiles, files, Len(files))
    IN  /\ zipPc = "idle"
        /\ ~sel.raised
        /\ existed \/ ~answer
        /\ expectedFiles' = sel.requiredFiles
        /\ projectName' = name
        /\ projectVersion' = version
        /\ folders' = folders \cup {folder}
        /\ overWrite' = IF existed THEN answer ELSE overWrite
        /\ outputBoms' = boms
        /\ IF name # "" /\ version # ""
           THEN /\ gerberFileList' = files
                /\ requiredFiles' = missing
                /\ IF Len(missing) > 0
                   THEN \* line 997
                        /\ zipPc' = "MakeErrorMissing"
                        /\ archives' = zips
                        /\ mfg' = mfg
                   ELSE /\ zipPc' = "returned"
                        /\ archives' = WriteZip(zips, folder, sel.mfg,
                                                ZipEntries(files, sel.requiredFiles))
                        /\ mfg' = sel.mfg
           ELSE \* the function ends without a return statement
                /\ zipPc' = "returnedNone"
                /\ archives' = zips
                /\ UNCHANGED <<gerberFileList, requiredFiles, mfg>>
        /\ UNCHANGED cwd
        /\ UNCHANGED <<sortVars, bomVars, restVars>>

ZipFiles ==
    \/ \E choice \in VendorChoices : ZipFilesBadVendor(choice)
    \/ \E choice \in VendorChoices, name \in ProjectNames,
          version \in ProjectVersions, answer \in BOOLEAN :
            ZipFilesVendor(choice, name, version, answer)

-----------------------------------------------------------------------------
(* PCBFileProcessor._getExistingBOMLine and _mergeBOMFiles                 *)

UpperCase == <<"A","B","C","D","E","F","G","H","I","J","K","L","M","N","O","P","Q","R","S","T","U","V","W","X","Y","Z">>
LowerCase == <<"a","b","c","d","e","f","g","h","i","j","k","l","m","n","o","p","q","r","s","t","u","v","w","x","y","z">>

LowerChar(c) ==
    IF \E k \in 1..Len(UpperCase) : UpperCase[k] = c
    THEN LowerCase[CHOOSE k \in 1..Len(UpperCase) : UpperCase[k] = c]
    ELSE c

\* str.lower()
Lower(s) == [i \in 1..Len(s) |-> LowerChar(s[i])]

\* The positions of character c in s, ascending.
PositionsOf(s, c) == SelectSeq([i \in 1..Len(s) |-> i], LAMBDA i : s[i] = c)

\* str.split(sep) for a one-character separator: the pieces between the
\* separators, empty pieces included.
Split(s, sep) ==
    LET cuts == <<0>> \o PositionsOf(s, sep) \o <<Len(s) + 1>>
    IN  [k \in 1..(Len(cuts) - 1) |-> SubSeq(s, cuts[k] + 1, cuts[k + 1] - 1)]

\* str.rstrip("\r\n")
RECURSIVE RStripNewline(_)
RStripNewline(s) ==
    IF s # <<>> /\ s[Len(s)] \in {"\r", "\n"}
    THEN RStripNewline(SubSeq(s, 1, Len(s) - 1))
    ELSE s

\* The lines of the fresh KiCad BOM and of the annotated copy the checked
\* instances are made of.
FreshLines ==
    { <<"\"","1","k","\"",",","\"","R","1","\"",",","\"","s","\"",",","\"","\"","\n">>,
      <<"\"","1","k","\"",",","\"","R","1",",","R","2","\"",",","\"","s","\"",",","\"","\"","\n">>,
      <<"\"","1","K","\"",",","\"","r","1","\"",",","\"","S","\"","\n">>,
      <<"\"","1","u","\"",",","\"","C","1","\"",",","\"","s","\"",",","\"","\"","\n">>,
      <<"\"","1","k","\"",",","\"","R","1","\"","\n">>,
      <<"\n">> }

AnnotatedLines ==
    { <<"\"","1","k","\"",",","\"","R","1","\"",",","\"","s","\"",",","\"","C","1","\"","\n">>,
      <<"\"","1","k","\"",",","\"","R","1","\"",",","\"","s","\"",",","\"","C","2","\"","\n">>,
      <<"\"","1","k","\"",",","\"","R","1",",","R","2","\"",",","\"","t","\"",",","\"","C","7","\"","\n">>,
      <<"\"","1","K","\"",",","\"","r","1","\"",",","\"","S","\"",",","\"","C","3","\"","\n">>,
      <<"\n">> }

\* The number of lines of the fresh BOM and of the annotated copy.
MaxFresh == 2
MaxAnnotated == 2

SeqsUpTo(S, n) == UNION {[1..k -> S] : k \in 0..n}

\* The test of lines 1104-1106 on the split lines, as Python evaluates it:
\* "and" stops at the first unequal pair, and an index past the end of a
\* list raises IndexError.
CompareElems(k, e) ==
    IF Lower(k[1]) # Lower(e[1]) THEN "differ"
    ELSE IF Len(k) < 2 \/ Len(e) < 2 THEN "IndexError"
    ELSE IF Lower(k[2]) # Lower(e[2]) THEN "differ"
    ELSE IF Len(k) < 3 \/ Len(e) < 3 THEN "IndexError"
    ELSE IF Lower(k[3]) # Lower(e[3]) THEN "differ"
    ELSE "equal"

\* The loop of lines 1101-1107 leaving at the first match.
RECURSIVE ExistingBOMLineFrom_First(_, _, _, _)
ExistingBOMLineFrom_First(kicadBOMFileLine, existingBOMLines, j, matched) ==
    IF j > Len(existingBOMLines) \/ matched.found
    THEN [raised |-> FALSE, found |-> matched.found, line |-> matched.line]
    ELSE LET c == CompareElems(Split(kicadBOMFileLine, ","),
                               Split(existingBOMLines[j], ","))
         IN  IF c = "IndexError"
             THEN [raised |-> TRUE, found |-> FALSE, line |-> <<>>]
             ELSE ExistingBOMLineFrom_First(kicadBOMFileLine, existingBOMLines, j + 1,
                      IF c = "equal"
                      THEN [found |-> TRUE, line |-> existingBOMLines[j]]
                      ELSE matched)

\* The loop of lines 1101-1107 from the j-th existing line on; matched is
\* matchedExistingBOMLine so far (found = FALSE for None).
RECURSIVE ExistingBOMLineFrom(_, _, _, _)
ExistingBOMLineFrom(kicadBOMFileLine, existingBOMLines, j, matched) ==
    IF j > Len(existingBOMLines)
    THEN [raised |-> FALSE, found |-> matched.found, line |-> matched.line]
    ELSE LET c == CompareElems(Split(kicadBOMFileLine, ","),
                               Split(existingBOMLines[j], ","))
         IN  IF c = "IndexError"
             THEN [raised |-> TRUE, found |-> FALSE, line |-> <<>>]
             ELSE ExistingBOMLineFrom(kicadBOMFileLine, existingBOMLines, j + 1,
                      IF c = "equal"
                      THEN [found |-> TRUE, line |-> existingBOMLines[j]]
                      ELSE matched)

\* _getExistingBOMLine(kicadBOMFileLine, existingBOMLines)
getExistingBOMLine(kicadBOMFileLine, existingBOMLines) ==
    ExistingBOMLineFrom(kicadBOMFileLine, existingBOMLines, 1,
                        [found |-> FALSE, line |-> <<>>])

\* The lines _mergeBOMFiles writes (lines 1124-1128): each line with its
\* line end stripped and "\n" added.
WrittenLines(lines) == [i \in 1..Len(lines) |-> Append(RStripNewline(lines[i]), "\n")]

BomIdle ==
    /\ kicadBOMFile = <<>> /\ bomOutputFile = <<>> /\ bomOutputFileLines = <<>>
    /\ matchLog = <<>> /\ mergePc = "unused"

\* _mergeBOMFiles(kicadBOMFile, bomOutputFile): the file is rewritten when no
\* call of _getExistingBOMLine raises, and left as it was otherwise.
MergeBOMFiles ==
    LET results == [i \in 1..Len(kicadBOMFile) |->
                        getExistingBOMLine(kicadBOMFile[i], bomOutputFile)]
        outputFileLines == [i \in 1..Len(kicadBOMFile) |->
                        IF results[i].found THEN results[i].line
                        ELSE kicadBOMFile[i]]
    IN  /\ mergePc = "idle"
        /\ bomOutputFileLines' = bomOutputFile
        /\ IF \E i \in 1..Len(results) : results[i].raised
           THEN /\ mergePc' = "IndexError"
                /\ UNCHANGED <<bomOutputFile, matchLog>>
           ELSE /\ mergePc' = "merged"
                /\ matchLog' = results
                /\ bomOutputFile' = WrittenLines(outputFileLines)
        /\ UNCHANGED kicadBOMFile
        /\ UNCHANGED <<sortVars, zipVars, restVars>>

-----------------------------------------------------------------------------
(* The specifications: one run of each operation on inputs drawn from the  *)
(* bounded sets above.                                                     *)

\* The output folder of project "p", version "1": absent, or present with an
\* archive of an earlier run.
OldArchive ==
    [folder |-> <<"p", "1">>, mfg |-> VENDOR_JLCPCB,
     entries |-> << <<"p","-","F","_","C","u",".","g","b","r">> >>]

DiskStates ==
    { [folders |-> {}, archives |-> {}],
      [folders |-> {<<"p", "1">>}, archives |-> {OldArchive}] }

SortInit ==
    /\ fileList \in SorterInputs
    /\ mfgFileList = <<>> /\ sortedFileList = <<>> /\ sortPc = "idle"
    /\ ZipIdle /\ BomIdle /\ RestIdle

SpecSort == SortInit /\ [][GetSortedFileList]_vars

BuildInit ==
    /\ cwd \in Listings
    /\ \E d \in DiskStates : folders = d.folders /\ archives = d.archives
    /\ mfg = "" /\ projectName = "" /\ projectVersion = "" /\ overWrite = FALSE
    /\ expectedFiles = <<>> /\ requiredFiles = <<>> /\ gerberFileList = <<>>
    /\ zipPc = "idle" /\ outputBoms = <<>>
    /\ SortIdle /\ BomIdle /\ RestIdle

SpecBuild == BuildInit /\ [][ZipFiles]_vars

BomInit ==
    /\ kicadBOMFile \in SeqsUpTo(FreshLines, MaxFresh)
    /\ bomOutputFile \in SeqsUpTo(AnnotatedLines, MaxAnnotated)
    /\ bomOutputFileLines = <<>> /\ matchLog = <<>> /\ mergePc = "idle"
    /\ SortIdle /\ ZipIdle /\ RestIdle

SpecBom == BomInit /\ [][MergeBOMFiles]_vars

-----------------------------------------------------------------------------
(* PCBFileProcessor._processPlcaementFile                                  *)

TOP == "top"
BOTTOM == "bottom"

\* str.startswith(prefix)
StartsWith(s, prefix) ==
    /\ Len(prefix) <= Len(s)
    /\ SubSeq(s, 1, Len(prefix)) = prefix

\* The header KiCad writes (line 1282) and the header written in its place
\* (line 1283).
KicadPlacementHeader ==
    <<"R","e","f",",","V","a","l",",","P","a","c","k","a","g","e",",","P","o","s","X",",","P","o","s","Y",",","R","o","t",",","S","i","d","e">>

JlcpcbPlacementHeader ==
    <<"D","e","s","i","g","n","a","t","o","r",",","V","a","l",",","P","a","c","k","a","g","e",",","M","i","d"," ","X",",","M","i","d"," ","Y",",","R","o","t","a","t","i","o","n",",","L","a","y","e","r">>

\* _save(theFile, lines): the lines of the file written, each line with its
\* line end stripped and "\n" added.
save(lines) == [i \in 1..Len(lines) |-> Append(RStripNewline(lines[i]), "\n")]

\* The loop of lines 1281-1286: newLines.
NewLines(lines) ==
    [i \in 1..Len(lines) |->
        IF StartsWith(lines[i], KicadPlacementHeader)
        THEN JlcpcbPlacementHeader
        ELSE lines[i]]

\* updatedHeader after the loop.
UpdatedHeader(lines) ==
    \E i \in 1..Len(lines) : StartsWith(lines[i], KicadPlacementHeader)

\* The lines of the placement files the checked instances are made of, as
\* readlines() gives them.
PlacementLines ==
    { <<"R","e","f",",","V","a","l",",","P","a","c","k","a","g","e",",","P","o","s","X",",","P","o","s","Y",",","R","o","t",",","S","i","d","e","\n">>,
      <<"R","e","f",",","V","a","l",",","P","a","c","k","a","g","e",",","P","o","s","X",",","P","o","s","Y",",","R","o","t",",","S","i","d","e",",","N","o","t","e","\n">>,
      <<"R","1",",","1","k",",","0","4","0","2",",","1",",","2",",","0",",","t","o","p","\n">>,
      <<"C","1",",","1","u",",","0","4","0","2",",","3",",","4",",","9","0",",","t","o","p","\r","\n">> }

\* The number of lines of a placement file.
MaxPlacementLines == 3

NoFile == [exists |-> FALSE, lines |-> <<>>]
FileOf(lines) == [exists |-> TRUE, lines |-> lines]

\* _processPlcaementFile(): the side is asked for, the placement file of that
\* side is looked up and read, and the new lines are saved in the output
\* folder when a header was replaced.
ProcessPlcaementFile(side) ==
    /\ placePc = "idle"
    /\ assySide' = side
    /\ IF ~placementFiles[side].exists
       THEN /\ placePc' = "notFound"
            /\ UNCHANGED outputPlacementFiles
       ELSE LET lines == placementFiles[side].lines
            IN  IF ~UpdatedHeader(lines)
                THEN /\ placePc' = "raised"
                     /\ UNCHANGED outputPlacementFiles
                ELSE /\ placePc' = "saved"
                     /\ outputPlacementFiles' =
                            [outputPlacementFiles EXCEPT ![side] = FileOf(save(NewLines(lines)))]
    /\ UNCHANGED placementFiles
    /\ UNCHANGED <<sortVars, zipVars, bomVars, editVars, viewVars, mainVars, cliVars, assyVars, searchVars>>

PlaceNext == \E side \in {TOP, BOTTOM} : ProcessPlcaementFile(side)

\* The top placement file is any file of the lines above or is missing; the
\* bottom one is a header alone or is missing; the output folder holds no
\* placement file or one of an earlier run.
PlaceInit ==
    /\ \E t \in {NoFile} \cup {FileOf(l) : l \in SeqsUpTo(PlacementLines, MaxPlacementLines)},
          b \in {NoFile, FileOf(<< Append(KicadPlacementHeader, "\n") >>)} :
            placementFiles = (TOP :> t) @@ (BOTTOM :> b)
    /\ \E o \in {NoFile, FileOf(<< Append(JlcpcbPlacementHeader, "\n") >>)} :
            outputPlacementFiles = (TOP :> o) @@ (BOTTOM :> NoFile)
    /\ assySide = "" /\ placePc = "idle"
    /\ SortIdle /\ ZipIdle /\ BomIdle /\ EditIdle /\ ViewIdle /\ MainIdle /\ CliIdle /\ AssyIdle /\ SearchIdle

SpecPlace == PlaceInit /\ [][PlaceNext]_vars

-----------------------------------------------------------------------------
(* __main__: the exception handlers of lines 1354-1367                     *)

\* The handlers with SystemExit handled as any other exception is.
MainExcept_ErrorOnExit(exc, opts) ==
    IF exc = "KeyboardInterrupt"
    THEN [errors |-> 0, traceback |-> FALSE, status |-> 0]
    ELSE IF opts.debug
         THEN [errors |-> 0, traceback |-> TRUE, status |-> 1]
         ELSE [errors |-> 1, traceback |-> FALSE, status |-> 0]

\* What the handlers print and the exit status of the process when the call
\* in the try block raises exc: SystemExit and KeyboardInterrupt are passed
\* over, any other exception is re-raised with --debug (the interpreter then
\* prints a traceback and exits with status 1) and printed as one error line
\* without it; after a handler the program runs off its end, status 0.
MainExcept(exc, opts) ==
    IF exc \in {"SystemExit", "KeyboardInterrupt"}
    THEN [errors |-> 0, traceback |-> FALSE, status |-> 0]
    ELSE IF opts.debug
         THEN [errors |-> 0, traceback |-> TRUE, status |-> 1]
         ELSE [errors |-> 1, traceback |-> FALSE, status |-> 0]

\* The process ends through the handlers with exception exc, raised after
\* the call printed so many error lines itself.
ExitBy(exc, printed) ==
    LET h == MainExcept(exc, options)
    IN  /\ errorLines' = errorLines + printed + h.errors
        /\ traceback' = h.traceback
        /\ exitStatus' = h.status
        /\ mainPc' = "exited"
        /\ UNCHANGED options

-----------------------------------------------------------------------------
(* PCBFileProcessor._updateJLCPCBPart and _processBOMFile                  *)

\* str.strip(chars)
RECURSIVE LStrip(_, _)
LStrip(s, chars) ==
    IF s # <<>> /\ s[1] \in chars THEN LStrip(Tail(s), chars) ELSE s

RECURSIVE RStrip(_, _)
RStrip(s, chars) ==
    IF s # <<>> /\ s[Len(s)] \in chars
    THEN RStrip(SubSeq(s, 1, Len(s) - 1), chars)
    ELSE s

Strip(s, chars) == LStrip(RStrip(s, chars), chars)

\* fieldList of lines 1166-1175: the pieces between the quotes that are
\* neither empty nor a lone comma, with an empty part number added to three
\* fields.
FieldList(line) ==
    LET fields == SelectSeq(Split(line, "\""), LAMBDA elem : Len(elem) > 0 /\ elem # <<",">>)
    IN  IF Len(fields) = 3 THEN Append(fields, <<>>) ELSE fields

Quoted(s) == <<"\"">> \o s \o <<"\"">>

\* '"{}","{}","{}","{}"'.format(...)
FormatBOMLine(comment, designator, footPrint, jlcPcbPartNumber) ==
    Quoted(comment) \o <<",">> \o Quoted(designator) \o <<",">>
        \o Quoted(footPrint) \o <<",">> \o Quoted(jlcPcbPartNumber)

\* The list of line 1199 without 'b'.
MoveCommands_NoBack == { <<"n">>, <<"l">>, <<"f">>, <<"a">> }

\* The list of line 1199.
MoveCommands == { <<"n">>, <<"b">>, <<"l">>, <<"f">>, <<"a">> }

\* _updateJLCPCBPart(line) for a line of four fields when the user types
\* input: the command typed, or the line with the part number typed.
updateJLCPCBPart(line, input) ==
    LET fieldList == FieldList(line)
        jlcPcbPartNumber == Strip(input, {"\r", "\n", "\""})
    IN  IF jlcPcbPartNumber \in MoveCommands
        THEN jlcPcbPartNumber
        ELSE FormatBOMLine(Strip(fieldList[1], {"\""}), Strip(fieldList[2], {"\""}),
                           Strip(fieldList[3], {"\""}), jlcPcbPartNumber)

\* The tail of the loop body (lines 1253-1254) after a part number was
\* typed, writing the line after the one edited.
EntryWritten_NextLine(bomLines, index, newLine) ==
    IF index + 2 <= Len(bomLines)
    THEN save([bomLines EXCEPT ![index + 2] = newLine])
    ELSE save(bomLines)

\* The tail of the loop body without the call of _save.
EntryWritten_NotSaved(bomLines, index, newLine) == bomLines

\* The tail of the loop body (lines 1253-1254) after a part number was
\* typed: the file as _save leaves it. index counts from 0 as lineIndex does.
EntryWritten(bomLines, index, newLine) ==
    save([bomLines EXCEPT ![index + 1] = newLine])

\* The lines of the BOM files the checked instances are made of: the header,
\* part lines with and without a part number, a part with an empty comment,
\* a line of one field.
HeaderLine ==
    <<"C","o","m","m","e","n","t",",","D","e","s","i","g","n","a","t","o","r",",","F","o","o","t","p","r","i","n","t",",","L","C","S","C","\n">>

EditLines ==
    { HeaderLine,
      <<"\"","1","k","\"",",","\"","R","1",",","R","2","\"",",","\"","s","\"",",","\"","\"","\n">>,
      <<"\"","1","u","\"",",","\"","C","1","\"",",","\"","t","\"",",","\"","C","9","\"","\r","\n">>,
      <<"\"","1","k","\"",",","\"","R","1","\"",",","\"","s","\"","\n">>,
      <<"\"","\"",",","\"","R","1","\"",",","\"","s","\"",",","\"","C","1","\"","\n">>,
      <<"\"","x","\"","\n">> }

\* The number of lines of a BOM file.
MaxBomLines == 2

\* What the user types at a prompt: a command, a part number, a part number
\* in quotes, an upper case letter.
Typed ==
    { <<"n">>, <<"b">>, <<"l">>, <<"f">>, <<"a">>,
      <<"C","5">>, <<"\"","C","6","\"">>, <<"N">> }

\* The other components are not used by the editor.
EditFrame == UNCHANGED <<sortVars, zipVars, bomVars, placeVars, viewVars, cliVars, assyVars, searchVars>>

\* line of lines 1219-1221.
CurrentLine == RStripNewline(bomFile[lineIndex + 1])

\* The loop is at a line that is not a header line.
AtPart ==
    /\ editPc = "editing"
    /\ lineIndex < Len(bomFile)
    /\ ~StartsWith(CurrentLine, <<"C","o","m","m","e","n","t">>)

\* _updateJLCPCBPart prompts the user.
Prompted == AtPart /\ Len(FieldList(CurrentLine)) = 4

\* lineIndex == len(bomLines): the edit is complete and updateAssyFiles
\* returns to main, which goes on to gerbvFiles.
EditCompleted ==
    /\ editPc = "editing"
    /\ lineIndex = Len(bomFile)
    /\ editPc' = "done"
    /\ editStep' = "completed"
    /\ mainPc' = "gerbvFiles"
    /\ UNCHANGED <<bomFile, lineIndex, typed, entered>>
    /\ UNCHANGED <<options, errorLines, traceback, exitStatus>>
    /\ EditFrame

\* A header line at which the cursor stays.
EditHeader_Stay ==
    /\ editPc = "editing"
    /\ lineIndex < Len(bomFile)
    /\ StartsWith(CurrentLine, <<"C","o","m","m","e","n","t">>)
    /\ lineIndex' = lineIndex
    /\ editStep' = "header"
    /\ UNCHANGED <<bomFile, typed, entered, editPc, mainVars>>
    /\ EditFrame

\* A header line is passed over.
EditHeader ==
    /\ editPc = "editing"
    /\ lineIndex < Len(bomFile)
    /\ StartsWith(CurrentLine, <<"C","o","m","m","e","n","t">>)
    /\ lineIndex' = lineIndex + 1
    /\ editStep' = "header"
    /\ UNCHANGED <<bomFile, typed, entered, editPc, mainVars>>
    /\ EditFrame

\* A line without three or four fields: an error line is printed and an
\* exception raised (lines 1205-1207).
EditInvalid ==
    /\ AtPart
    /\ Len(FieldList(CurrentLine)) # 4
    /\ editPc' = "raised"
    /\ editStep' = "invalid"
    /\ ExitBy("Exception", 1)
    /\ UNCHANGED <<bomFile, lineIndex, typed, entered>>
    /\ EditFrame

\* The user types a command that moves the cursor.
EditMove(input) ==
    LET newLine == updateJLCPCBPart(CurrentLine, input)
    IN  /\ Prompted
        /\ typed' = input
        /\ \/ /\ newLine = <<"f">>
              /\ lineIndex' = 0
              /\ editStep' = "first"
           \/ /\ newLine = <<"l">>
              /\ lineIndex' = Len(bomFile) - 1
              /\ editStep' = "last"
           \/ /\ newLine = <<"n">>
              /\ lineIndex' = IF lineIndex < Len(bomFile) - 1 THEN lineIndex + 1 ELSE lineIndex
              /\ editStep' = "next"
           \/ /\ newLine = <<"b">>
              /\ lineIndex' = IF lineIndex > 0 THEN lineIndex - 1 ELSE lineIndex
              /\ editStep' = "back"
        /\ UNCHANGED <<bomFile, entered, editPc, mainVars>>
        /\ EditFrame

\* The user types 'a': sys.exit(0).
EditAbort(input) ==
    /\ Prompted
    /\ updateJLCPCBPart(CurrentLine, input) = <<"a">>
    /\ typed' = input
    /\ editPc' = "aborted"
    /\ editStep' = "abort"
    /\ ExitBy("SystemExit", 0)
    /\ UNCHANGED <<bomFile, lineIndex, entered>>
    /\ EditFrame

\* The user types anything else: the line is rewritten and the file saved.
EditEntry(input) ==
    LET newLine == updateJLCPCBPart(CurrentLine, input)
    IN  /\ Prompted
        /\ newLine \notin { <<"f">>, <<"l">>, <<"n">>, <<"b">>, <<"a">> }
        /\ typed' = input
        /\ bomFile' = EntryWritten(bomFile, lineIndex, newLine)
        /\ entered' = (lineIndex :> input) @@ entered
        /\ lineIndex' = lineIndex + 1
        /\ editStep' = "entry"
        /\ UNCHANGED <<editPc, mainVars>>
        /\ EditFrame

\* The user presses CTRL C at the prompt.
EditInterrupt ==
    /\ Prompted
    /\ editPc' = "interrupted"
    /\ editStep' = "interrupt"
    /\ ExitBy("KeyboardInterrupt", 0)
    /\ UNCHANGED <<bomFile, lineIndex, typed, entered>>
    /\ EditFrame

EditNext ==
    \/ EditCompleted
    \/ EditHeader
    \/ EditInvalid
    \/ \E input \in Typed : EditMove(input)
    \/ \E input \in Typed : EditAbort(input)
    \/ \E input \in Typed : EditEntry(input)
    \/ EditInterrupt

\* main was started with --assy and is in updateAssyFiles, at the start of
\* _processBOMFile.
AssyOptions ==
    { [debug |-> d, assy |-> TRUE, find |-> FALSE, update |-> FALSE,
       no_preview |-> FALSE, s |-> FALSE, view_zip |-> FALSE, gerbview |-> FALSE]
      : d \in BOOLEAN }

EditInit ==
    /\ bomFile \in SeqsUpTo(EditLines, MaxBomLines)
    /\ lineIndex = 0 /\ typed = <<>> /\ entered = <<>>
    /\ editStep = "" /\ editPc = "editing"
    /\ options \in AssyOptions
    /\ errorLines = 0 /\ traceback = FALSE /\ exitStatus = 0
    /\ mainPc = "updateAssyFiles"
    /\ SortIdle /\ ZipIdle /\ BomIdle /\ PlaceIdle /\ ViewIdle /\ CliIdle /\ AssyIdle /\ SearchIdle

SpecEdit == EditInit /\ [][EditNext]_vars

\* What the user types in the sessions checked for their end: the commands
\* that move the cursor back and to the last line, the abort, a part number.
FairTyped == { <<"b">>, <<"l">>, <<"a">>, <<"C","5">> }

EditFairNext ==
    \/ EditCompleted
    \/ EditHeader
    \/ EditInvalid
    \/ \E input \in FairTyped : EditMove(input)
    \/ \E input \in FairTyped : EditAbort(input)
    \/ \E input \in FairTyped : EditEntry(input)
    \/ EditInterrupt

\* The editor when the loop goes on whenever it can: the user answers every
\* prompt, and a pass of the loop that needs no input is made.
SpecEditFair == EditInit /\ [][EditFairNext]_vars /\ WF_vars(EditFairNext)

-----------------------------------------------------------------------------
(* PCBFileProcessor.gerbvFiles                                             *)

\* A directory of the temporary area that belongs to another program.
OtherDir == <<"u","/">>

\* The finally clause removing the directory only when the try block raised
\* nothing.
DirsAfterFinally_OnReturn(dirs, dir, exc) == IF exc = "" THEN dirs \ {dir} ELSE dirs

\* The directories left by the finally clause (lines 911-912), whatever
\* exception exc is pending.
DirsAfterFinally(dirs, dir, exc) == dirs \ {dir}

\* The files left by shutil.rmtree(dir).
FilesAfterRmtree(files, dir) == {f \in files : ~StartsWith(f, dir)}

\* The names of an archive of one vendor's export set.
ArchiveNames(req) == [i \in 1..Len(req) |-> ExportName(req[i])]

\* The zipFile arguments: None (zipFiles returned nothing), a file that is
\* not a zip archive, and archives of each vendor's export set, of a file no
\* vendor knows, and of nothing.
ViewArchives ==
    { [kind |-> "none", names |-> <<>>], [kind |-> "notzip", names |-> <<>>] }
    \cup { [kind |-> "zip", names |-> ArchiveNames(req)] : req \in AllRequired }
    \cup { [kind |-> "zip", names |-> << ExtraEntries[3].name >>],
           [kind |-> "zip", names |-> <<>>] }

ViewFrame == UNCHANGED <<sortVars, zipVars, bomVars, placeVars, editVars, cliVars, assyVars, searchVars>>

\* dirpath = tempfile.mkdtemp()
ViewMkdtemp ==
    /\ viewPc = "start"
    /\ dirpath' = TempDir
    /\ tempDirs' = tempDirs \cup {TempDir}
    /\ viewPc' = "open"
    /\ UNCHANGED <<zipFile, tempFiles, viewFileList, cmdLine, viewerStatus, pending>>
    /\ UNCHANGED mainVars /\ ViewFrame

\* open(zipFile, 'rb') and zipfile.ZipFile(fh): both raise unless zipFile
\* names a zip archive.
ViewOpen ==
    /\ viewPc = "open"
    /\ IF zipFile.kind = "zip"
       THEN viewPc' = "extract" /\ UNCHANGED pending
       ELSE viewPc' = "finally" /\ pending' = "Exception"
    /\ UNCHANGED <<zipFile, tempDirs, tempFiles, dirpath, viewFileList, cmdLine, viewerStatus>>
    /\ UNCHANGED mainVars /\ ViewFrame

\* The loop of lines 888-890: every name is extracted, or z.extract raises
\* after k names were.
ViewExtract(k) ==
    LET paths == [i \in 1..k |-> dirpath \o zipFile.names[i]]
    IN  /\ viewPc = "extract"
        /\ tempFiles' = tempFiles \cup Range(paths)
        /\ viewFileList' = paths
        /\ IF k = Len(zipFile.names)
           THEN viewPc' = "sort" /\ UNCHANGED pending
           ELSE viewPc' = "finally" /\ pending' = "Exception"
        /\ UNCHANGED <<zipFile, tempDirs, dirpath, cmdLine, viewerStatus>>
        /\ UNCHANGED mainVars /\ ViewFrame

\* fileList = self.getSortedFileList(fileList)
ViewSort ==
    LET r == getSortedFileList(viewFileList)
    IN  /\ viewPc = "sort"
        /\ IF r.raised
           THEN viewPc' = "finally" /\ pending' = "Exception" /\ UNCHANGED viewFileList
           ELSE viewPc' = "view" /\ viewFileList' = r.value /\ UNCHANGED pending
        /\ UNCHANGED <<zipFile, tempDirs, tempFiles, dirpath, cmdLine, viewerStatus>>
        /\ UNCHANGED mainVars /\ ViewFrame

\* system(cmdLine): the viewer runs and ends with some status, which is
\* dropped.
ViewRun(status) ==
    /\ viewPc = "view"
    /\ cmdLine' = [program |-> IF options.gerbview THEN "gerbview" ELSE "gerbv",
                   files |-> viewFileList]
    /\ viewerStatus' = status
    /\ viewPc' = "finally"
    /\ UNCHANGED <<zipFile, tempDirs, tempFiles, dirpath, viewFileList, pending>>
    /\ UNCHANGED mainVars /\ ViewFrame

\* CTRL C while the try block runs.
ViewInterrupt ==
    /\ viewPc \in {"open", "extract", "sort", "view"}
    /\ pending' = "KeyboardInterrupt"
    /\ viewPc' = "finally"
    /\ UNCHANGED <<zipFile, tempDirs, tempFiles, dirpath, viewFileList, cmdLine, viewerStatus>>
    /\ UNCHANGED mainVars /\ ViewFrame

\* finally: shutil.rmtree(dirpath); then gerbvFiles returns, main runs off
\* its end, or the pending exception goes on to the handlers of main.
ViewFinally ==
    /\ viewPc = "finally"
    /\ tempDirs' = DirsAfterFinally(tempDirs, dirpath, pending)
    /\ tempFiles' = IF dirpath \in tempDirs' THEN tempFiles
                    ELSE FilesAfterRmtree(tempFiles, dirpath)
    /\ IF pending = ""
       THEN /\ viewPc' = "returned"
            /\ mainPc' = "exited" /\ exitStatus' = 0
            /\ UNCHANGED <<options, errorLines, traceback>>
       ELSE /\ viewPc' = "raised"
            /\ ExitBy(pending, 0)
    /\ UNCHANGED <<zipFile, dirpath, viewFileList, cmdLine, viewerStatus, pending>>
    /\ ViewFrame

ViewNext ==
    \/ ViewMkdtemp
    \/ ViewOpen
    \/ \E k \in 0..Len(zipFile.names) : ViewExtract(k)
    \/ ViewSort
    \/ \E status \in {0, 1} : ViewRun(status)
    \/ ViewInterrupt
    \/ ViewFinally

\* main is at its last call, gerbvFiles(zipFile, options.gerbview).
ViewOptions ==
    { [debug |-> d, assy |-> FALSE, find |-> FALSE, update |-> FALSE,
       no_preview |-> FALSE, s |-> FALSE, view_zip |-> FALSE, gerbview |-> g]
      : d \in BOOLEAN, g \in BOOLEAN }

ViewInit ==
    /\ zipFile \in ViewArchives
    /\ tempDirs = {OtherDir} /\ tempFiles = { OtherDir \o <<"x">> }
    /\ dirpath = <<>> /\ viewFileList = <<>> /\ cmdLine = <<>>
    /\ viewerStatus = 0 /\ pending = "" /\ viewPc = "start"
    /\ options \in ViewOptions
    /\ errorLines = 0 /\ traceback = FALSE /\ exitStatus = 0
    /\ mainPc = "gerbvFiles"
    /\ SortIdle /\ ZipIdle /\ BomIdle /\ PlaceIdle /\ EditIdle /\ CliIdle /\ AssyIdle /\ SearchIdle

SpecView == ViewInit /\ [][ViewNext]_vars

-----------------------------------------------------------------------------
(* __main__: the calls of lines 1331-1352                                  *)

AllOptions ==
    [debug : BOOLEAN, assy : BOOLEAN, find : BOOLEAN, update : BOOLEAN,
     no_preview : BOOLEAN, s : BOOLEAN, view_zip : BOOLEAN, gerbview : BOOLEAN]

\* What main leaves alone: the state of the operations it calls is in the
\* specifications of those operations; here a call is its outcome.
MainFrame ==
    /\ UNCHANGED <<sortVars, bomVars, placeVars, editVars, viewVars, assyVars, searchVars>>
    /\ UNCHANGED <<cwd, folders, archives, projectName, projectVersion,
                   overWrite, expectedFiles, requiredFiles, gerberFileList, zipPc,
                   outputBoms>>

\* The call in the try block returned and main goes on to next; after its
\* last call the program runs off its end.
MainGoesOn(next) ==
    /\ mainPc' = next
    /\ exitStatus' = 0
    /\ UNCHANGED <<options, errorLines, traceback>>

\* The if chain of lines 1331-1346 up to the first call. With --view_zip
\* the argument options.v is evaluated first and raises AttributeError: the
\* parser stores that option as options.view_zip.
MainDispatch ==
    /\ mainPc = "start"
    /\ IF options.view_zip
       THEN ExitBy("Exception", 0)
       ELSE MainGoesOn(IF options.s THEN "showKicadSettings"
                       ELSE IF options.gerbview THEN "zipFiles"
                       ELSE IF options.find THEN "searchParts"
                       ELSE IF options.update THEN "downloadJLCPCBDatabase"
                       ELSE "zipFiles")
    /\ UNCHANGED <<calls, zipResult, mfg>>
    /\ MainFrame

\* A call that returns nothing main uses: it returns, raises or is
\* interrupted; main has no call after it.
MainLastCall(name, outcome) ==
    /\ mainPc = name
    /\ calls' = Append(calls, name)
    /\ IF outcome = "" THEN MainGoesOn("exited") ELSE ExitBy(outcome, 0)
    /\ UNCHANGED <<zipResult, mfg>>
    /\ MainFrame

MainShowKicadSettings(outcome) ==
    /\ mainPc = "showKicadSettings"
    /\ MainLastCall("showKicadSettings", outcome)

MainSearchParts(outcome) ==
    /\ mainPc = "searchParts"
    /\ MainLastCall("searchParts", outcome)

MainDownload(outcome) ==
    /\ mainPc = "downloadJLCPCBDatabase"
    /\ MainLastCall("downloadJLCPCBDatabase", outcome)

\* zipFile = pcbFileProcessor.zipFiles(): an archive is built for a vendor
\* and self._mfg set, or None is returned, or MakeError is raised, or the
\* user interrupts a prompt.
MainZipFiles(outcome) ==
    /\ mainPc = "zipFiles"
    /\ calls' = Append(calls, "zipFiles")
    /\ IF outcome \in {VENDOR_SEEDSTUDIO, VENDOR_PCBWAY, VENDOR_JLCPCB, "none"}
       THEN /\ zipResult' = IF outcome = "none" THEN "none" ELSE "archive"
            /\ mfg' = IF outcome = "none" THEN mfg ELSE outcome
            /\ MainGoesOn(IF options.gerbview THEN "gerbvFiles"
                          ELSE IF options.assy THEN "updateAssyFiles"
                          ELSE "gerbvFiles")
       ELSE /\ ExitBy(outcome, 0)
            /\ UNCHANGED <<zipResult, mfg>>
    /\ MainFrame

\* pcbFileProcessor.updateAssyFiles(): raises at line 1298 unless the vendor
\* is JLCPCB; the placement rewrite or the BOM edit may raise, the user may
\* abort the edit (SystemExit) or interrupt it.
MainUpdateAssyFiles(outcome) ==
    /\ mainPc = "updateAssyFiles"
    /\ calls' = Append(calls, "updateAssyFiles")
    /\ mfg # VENDOR_JLCPCB => outcome = "Exception"
    /\ IF outcome = "" THEN MainGoesOn("gerbvFiles") ELSE ExitBy(outcome, 0)
    /\ UNCHANGED <<zipResult, mfg>>
    /\ MainFrame

\* pcbFileProcessor.gerbvFiles(zipFile, options.gerbview): with None for
\* zipFile open() raises.
MainGerbvFiles(outcome) ==
    /\ zipResult = "none" => outcome = "Exception"
    /\ MainLastCall("gerbvFiles", outcome)

MainNext ==
    \/ MainDispatch
    \/ \E outcome \in {"", "Exception", "KeyboardInterrupt"} : MainShowKicadSettings(outcome)
    \/ \E outcome \in {"", "Exception", "KeyboardInterrupt"} : MainSearchParts(outcome)
    \/ \E outcome \in {"", "Exception", "KeyboardInterrupt"} : MainDownload(outcome)
    \/ \E outcome \in {VENDOR_SEEDSTUDIO, VENDOR_PCBWAY, VENDOR_JLCPCB, "none",
                       "Exception", "KeyboardInterrupt"} : MainZipFiles(outcome)
    \/ \E outcome \in {"", "Exception", "SystemExit", "KeyboardInterrupt"} :
            MainUpdateAssyFiles(outcome)
    \/ \E outcome \in {"", "Exception", "KeyboardInterrupt"} : MainGerbvFiles(outcome)

\* main after parse_args, for every combination of the options.
MainInit ==
    /\ options \in AllOptions
    /\ errorLines = 0 /\ traceback = FALSE /\ exitStatus = 0
    /\ mainPc = "start"
    /\ calls = <<>> /\ zipResult = ""
    /\ AssyIdle /\ SearchIdle
    /\ SortIdle /\ ZipIdle /\ BomIdle /\ PlaceIdle /\ EditIdle /\ ViewIdle

SpecMain == MainInit /\ [][MainNext]_vars

-----------------------------------------------------------------------------
(* PCBFileProcessor._getBomFile, after zipFiles                            *)

\* The characters of a project name.
NameChars(name) == IF name = "p" THEN <<"p">> ELSE <<>>

\* "{}.csv".format(self._projectName)
BomFileName(name) == NameChars(name) \o <<".","c","s","v">>

\* The loop of lines 1138-1142 over ASSY_SEARCH_PATHS, "." and "..": the BOM
\* is a regular file of the working directory or of its parent.
FoundBOMFile(listing, parent, name) ==
    \/ \E i \in 1..Len(listing) :
            listing[i].name = BomFileName(name) /\ listing[i].isFile
    \/ BomFileName(name) \in parent

\* _mergeBOMFiles on the lines of the two files: whether a call of
\* _getExistingBOMLine raised, and the lines written otherwise.
MergedBOM(fresh, existing) ==
    LET results == [i \in 1..Len(fresh) |-> getExistingBOMLine(fresh[i], existing)]
    IN  [raised |-> \E i \in 1..Len(fresh) : results[i].raised,
         lines |-> WrittenLines([i \in 1..Len(fresh) |->
                        IF results[i].found THEN results[i].line ELSE fresh[i]])]

\* _getBomFile(), called by _processBOMFile once zipFiles has built an
\* archive for JLCPCB. kicadBOMFile holds the lines of the BOM found.
GetBomFile ==
    LET folder == <<projectName, projectVersion>>
    IN  /\ getBomPc = "idle"
        /\ zipPc = "returned" /\ mfg = VENDOR_JLCPCB
        /\ IF ~FoundBOMFile(cwd, parentFiles, projectName)
           THEN \* line 1144
                /\ getBomPc' = "notFound"
                /\ UNCHANGED outputBoms
           ELSE IF overWrite
           THEN \* shutil.copy, line 1150
                /\ outputBoms' = (folder :> kicadBOMFile) @@ outputBoms
                /\ getBomPc' = "returned"
           ELSE IF folder \in DOMAIN outputBoms
           THEN \* line 1156
                LET merged == MergedBOM(kicadBOMFile, outputBoms[folder])
                IN  IF merged.raised
                    THEN /\ getBomPc' = "IndexError"
                         /\ UNCHANGED outputBoms
                    ELSE /\ outputBoms' = [outputBoms EXCEPT ![folder] = merged.lines]
                         /\ getBomPc' = "returned"
           ELSE \* line 1159
                /\ getBomPc' = "noCopy"
                /\ UNCHANGED outputBoms
        /\ UNCHANGED <<cwd, folders, archives, mfg, projectName, projectVersion,
                       overWrite, expectedFiles, requiredFiles, gerberFileList, zipPc>>
        /\ UNCHANGED <<parentFiles, sortVars, bomVars, placeVars, editVars,
                       viewVars, mainVars, cliVars, searchVars>>

\* The working directory of a JLCPCB project, with and without its BOM.
AssyListings ==
    { ExportSet(JLCPCB_REQUIRED_FILES) \o PickFrom(ExtraEntries, X, 1) : X \in {{}, {3}} }

\* The output folder of project "p", version "1": absent, present without a
\* BOM copy, or present with the BOM copy of an earlier run.
AssyDisks ==
    { [folders |-> {}, archives |-> {}, boms |-> <<>>],
      [folders |-> {<<"p", "1">>}, archives |-> {OldArchive}, boms |-> <<>>] }
    \cup { [folders |-> {<<"p", "1">>}, archives |-> {OldArchive},
            boms |-> (<<"p", "1">> :> lines)] : lines \in SeqsUpTo(AnnotatedLines, 1) }

AssyNext == ZipFiles \/ GetBomFile

AssyInit ==
    /\ cwd \in AssyListings
    /\ parentFiles \in { {}, {BomFileName("p")} }
    /\ kicadBOMFile \in IF FoundBOMFile(cwd, parentFiles, "p")
                        THEN SeqsUpTo(FreshLines, 1) ELSE {<<>>}
    /\ \E d \in AssyDisks :
            folders = d.folders /\ archives = d.archives /\ outputBoms = d.boms
    /\ mfg = "" /\ projectName = "" /\ projectVersion = "" /\ overWrite = FALSE
    /\ expectedFiles = <<>> /\ requiredFiles = <<>> /\ gerberFileList = <<>>
    /\ zipPc = "idle" /\ getBomPc = "idle"
    /\ bomOutputFile = <<>> /\ bomOutputFileLines = <<>> /\ matchLog = <<>>
    /\ mergePc = "unused"
    /\ SortIdle /\ PlaceIdle /\ EditIdle /\ ViewIdle /\ MainIdle /\ CliIdle
    /\ SearchIdle

SpecAssy == AssyInit /\ [][AssyNext]_vars

-----------------------------------------------------------------------------
(* zipFiles, then gerbvFiles on the archive built (lines 1338-1339 and     *)
(* 1348-1352)                                                              *)

\* Gerber files of other exports left in the working directory: the top
\* copper layer as each of three profiles names it, and a layer no vendor
\* requires.
ForeignEntries ==
    << [name |-> ExportName(JLCPCB_REQUIRED_FILES[1]), isFile |-> TRUE],
       [name |-> ExportName(JLCPCB_REQUIRED_FILES_V6[1]), isFile |-> TRUE],
       [name |-> ExportName(PCBWAY_REQUIRED_FILES[1]), isFile |-> TRUE],
       ExtraEntries[2] >>

\* Those of them that are not in the vendor's own export set.
ForeignFiles(req) ==
    SelectSeq(ForeignEntries,
              LAMBDA e : \A i \in 1..Len(req) : ExportName(req[i]) # e.name)

\* Directory listings: one vendor's complete export set and at most MaxExtras
\* files of other exports, in that order or reversed.
ChainListings ==
    UNION { { Arrange(ExportSet(req) \o PickFrom(ForeignFiles(req), X, 1), 0, rev) :
                X \in SmallSubsets(1..Len(ForeignFiles(req)), MaxExtras),
                rev \in BOOLEAN } : req \in AllRequired }

\* The entries of the archive zipFiles has just written.
BuiltEntries ==
    LET z == CHOOSE a \in archives :
                a.folder = <<projectName, projectVersion>> /\ a.mfg = mfg
    IN  z.entries

\* main passes the path zipFiles returned to gerbvFiles.
MainViewArchive ==
    /\ mainPc = "zipFiles" /\ zipPc = "returned"
    /\ mainPc' = "gerbvFiles"
    /\ zipFile' = [kind |-> "zip", names |-> BuiltEntries]
    /\ viewPc' = "start"
    /\ UNCHANGED <<tempDirs, tempFiles, dirpath, viewFileList, cmdLine,
                   viewerStatus, pending>>
    /\ UNCHANGED <<options, errorLines, traceback, exitStatus>>
    /\ ViewFrame

ChainNext == ZipFiles \/ MainViewArchive \/ ViewNext

ChainInit ==
    /\ cwd \in ChainListings
    /\ folders = {} /\ archives = {} /\ outputBoms = <<>>
    /\ mfg = "" /\ projectName = "" /\ projectVersion = "" /\ overWrite = FALSE
    /\ expectedFiles = <<>> /\ requiredFiles = <<>> /\ gerberFileList = <<>>
    /\ zipPc = "idle"
    /\ zipFile = [kind |-> "none", names |-> <<>>]
    /\ tempDirs = {OtherDir} /\ tempFiles = { OtherDir \o <<"x">> }
    /\ dirpath = <<>> /\ viewFileList = <<>> /\ cmdLine = <<>>
    /\ viewerStatus = 0 /\ pending = "" /\ viewPc = "unused"
    /\ options \in {o \in ViewOptions : ~o.debug}
    /\ errorLines = 0 /\ traceback = FALSE /\ exitStatus = 0
    /\ mainPc = "zipFiles"
    /\ SortIdle /\ BomIdle /\ PlaceIdle /\ EditIdle /\ CliIdle /\ AssyIdle /\ SearchIdle

SpecChain == ChainInit /\ [][ChainNext]_vars

-----------------------------------------------------------------------------
(* DBSearch and the menu loop of JLCPCBDatabase.search                     *)

\* JLCPCBDatabase.FIELD_LIST. No name holds a comma, so the lists kept as
\* comma separated text are modelled by the lists split(",") gives.
FIELD_LIST ==
    << "LCSC Part", "First Category", "Second Category", "MFR.Part", "Package",
       "Solder Joint", "Manufacturer", "Library Type", "Description",
       "Datasheet", "Price", "Stock" >>

DEFAULT_COLUMN_LIST ==
    << "LCSC Part", "Stock", "MFR.Part", "Package", "Library Type", "Price",
       "Description" >>

DEFAULT_COLUMN_SIZES == <<9, 7, 25, 25, 8, 12, 90>>

\* The number of IDs typed at the field list prompt.
MaxIds == 2

\* The IDs typed at the prompts, and the column sizes typed.
SearchIds == {0, 1, 2, 12, 13}
SearchSizes == {0, 9, 132}

\* JLCPCBDatabase.FIELD_LIST[id-1] as Python indexes: -1 is the last entry.
FieldOfID(id) == IF id = 0 THEN FIELD_LIST[Len(FIELD_LIST)] ELSE FIELD_LIST[id]

\* The response to the field list prompt is taken (lines 348-358): one ID at
\* least, and none below 0 or above the number of fields. Any other
\* response is asked for again.
FieldListAccepted(ids) ==
    /\ Len(ids) > 0
    /\ \A i \in 1..Len(ids) : ~(ids[i] < 0 \/ ids[i] > Len(FIELD_LIST))

\* The response to the column size prompt is taken (lines 385-394): as many
\* sizes as fields, each from 1 to 132.
ColumnWidthsAccepted(sizes, fields) ==
    /\ Len(sizes) = Len(fields)
    /\ \A i \in 1..Len(sizes) : ~(sizes[i] < 1 \/ sizes[i] > 132)

\* DBSearch.init()
DBSearchInit ==
    [fieldList |-> DEFAULT_COLUMN_LIST,
     columnWidthList |-> DEFAULT_COLUMN_SIZES,
     orderFieldID |-> 2]

\* DBSearch.load() after init(): the parameters of the config file, or
\* those of init() when the file cannot be read.
DBSearchLoad(file) == IF file = <<>> THEN DBSearchInit ELSE file

\* DBSearch.getLines() raises IndexError at fields[self.orderFieldID-1].
GetLinesRaises == orderFieldID - 1 >= Len(dbFieldList)

\* One pass of the loop of search() in which the parameters in db are set:
\* they are shown, the option is handled and DBSearch.save() writes them.
MenuPass(db) ==
    /\ searchPc = "menu"
    /\ ~GetLinesRaises
    /\ dbFieldList' = db.fieldList
    /\ columnWidthList' = db.columnWidthList
    /\ orderFieldID' = db.orderFieldID
    /\ cfgFile' = db
    /\ UNCHANGED searchPc
    /\ UNCHANGED <<sortVars, zipVars, bomVars, placeVars, editVars, viewVars,
                   mainVars, cliVars, assyVars>>

DBSearchNow ==
    [fieldList |-> dbFieldList, columnWidthList |-> columnWidthList,
     orderFieldID |-> orderFieldID]

\* Option FL: _enterFieldList sets fieldList and nothing else.
SearchEnterFieldList(ids) ==
    /\ FieldListAccepted(ids)
    /\ MenuPass([DBSearchNow EXCEPT
                    !.fieldList = [i \in 1..Len(ids) |-> FieldOfID(ids[i])]])

\* Option CS: _entercolumnWidthList.
SearchEnterColumnWidthList(sizes) ==
    /\ ColumnWidthsAccepted(sizes, dbFieldList)
    /\ MenuPass([DBSearchNow EXCEPT !.columnWidthList = sizes])

\* Option OF: _enterOrderField, with inputDecInt(prompt, 1, len(fieldList)).
SearchEnterOrderField(id) ==
    /\ ~(id < 1 \/ id > Len(dbFieldList))
    /\ MenuPass([DBSearchNow EXCEPT !.orderFieldID = id])

\* Option R: DBSearch.init().
SearchReset ==
    /\ searchPc = "menu"
    /\ MenuPass(DBSearchInit)

\* Any option that sets none of the three parameters: they are saved as
\* they are.
SearchOtherOption ==
    /\ searchPc = "menu"
    /\ MenuPass(DBSearchNow)

\* The parameters cannot be shown: IndexError ends search().
SearchShowRaises ==
    /\ searchPc = "menu"
    /\ GetLinesRaises
    /\ searchPc' = "raised"
    /\ UNCHANGED <<dbFieldList, columnWidthList, orderFieldID, cfgFile>>
    /\ UNCHANGED <<sortVars, zipVars, bomVars, placeVars, editVars, viewVars,
                   mainVars, cliVars, assyVars>>

\* The program is run again with --find: DBSearch() and load() (lines
\* 157-158), then search().
SearchRunAgain ==
    /\ searchPc = "raised"
    /\ LET db == DBSearchLoad(cfgFile)
       IN  /\ dbFieldList' = db.fieldList
           /\ columnWidthList' = db.columnWidthList
           /\ orderFieldID' = db.orderFieldID
    /\ searchPc' = "menu"
    /\ UNCHANGED cfgFile
    /\ UNCHANGED <<sortVars, zipVars, bomVars, placeVars, editVars, viewVars,
                   mainVars, cliVars, assyVars>>

SearchNext ==
    \/ \E ids \in UNION {[1..n -> SearchIds] : n \in 0..MaxIds} : SearchEnterFieldList(ids)
    \/ \E sizes \in UNION {[1..n -> SearchSizes] : n \in 1..(MaxIds + 1)} :
            SearchEnterColumnWidthList(sizes)
    \/ \E id \in SearchIds : SearchEnterOrderField(id)
    \/ SearchReset
    \/ SearchOtherOption
    \/ SearchShowRaises
    \/ SearchRunAgain

\* search() is entered in a first run: no config file, load() leaves the
\* parameters of init().
SearchInit ==
    /\ cfgFile = <<>>
    /\ dbFieldList = DBSearchLoad(cfgFile).fieldList
    /\ columnWidthList = DBSearchLoad(cfgFile).columnWidthList
    /\ orderFieldID = DBSearchLoad(cfgFile).orderFieldID
    /\ searchPc = "menu"
    /\ SortIdle /\ ZipIdle /\ BomIdle
    /\ PlaceIdle /\ EditIdle /\ ViewIdle /\ MainIdle /\ CliIdle /\ AssyIdle

SpecSearch == SearchInit /\ [][SearchNext]_vars

-----------------------------------------------------------------------------
(* The archive builder's claims.                                           *)

\* The required suffixes that no regular, allowlisted file of the listing
\* ends with, in the order of the required list.
Unsatisfied(expected, listing) ==
    SelectSeq(expected, LAMBDA s :
        ~\E i \in 1..Len(listing) :
            /\ listing[i].isFile
            /\ IsGerberFile(listing[i].name)
            /\ EndsWith(listing[i].name, s))

\* C1: a call of zipFiles that scans the directory (a valid vendor, a project
\* name and a version were entered) and leaves a required suffix of the vendor
\* without a file ends with MakeError and writes no archive: the archives on
\* disk after the call are among those before it.
C1_MissingRaisesNoArchive ==
    [][ ( /\ zipPc = "idle" /\ zipPc' \notin {"idle", "MakeErrorVendor"}
          /\ projectName' # "" /\ projectVersion' # ""
          /\ Unsatisfied(expectedFiles', cwd) # <<>> )
        => ( zipPc' = "MakeErrorMissing" /\ archives' \subseteq archives ) ]_vars

\* C1's case: the scan found seven or more gerber files and one suffix missing.
C1_Witness ==
    /\ zipPc = "MakeErrorMissing"
    /\ Len(gerberFileList) >= 7
    /\ Len(requiredFiles) = 1

\* C2: after the scan the mutated required list is exactly the vendor's
\* required suffixes that no allowlisted file ends with, in table order.
C2_MissingListExact ==
    zipPc \in {"MakeErrorMissing", "returned"}
        => requiredFiles = Unsatisfied(expectedFiles, cwd)

\* C2's case: two files end with the same required suffix (.drl), some
\* suffixes were satisfied and one is missing.
C2_Witness ==
    /\ zipPc = "MakeErrorMissing"
    /\ Cardinality({i \in 1..Len(gerberFileList) :
                        EndsWith(gerberFileList[i], DrlSuffix)}) = 2
    /\ Len(requiredFiles) = 1
    /\ Len(expectedFiles) > 1
    /\ requiredFiles[1] # DrlSuffix

\* The archive zipFiles returned: the one of the project, version and vendor.
ReturnedArchives ==
    {z \in archives : z.folder = <<projectName, projectVersion>> /\ z.mfg = mfg}

\* The names of the regular files of the listing that end with an allowlisted
\* extension.
AllowlistedNames(listing) ==
    {listing[i].name : i \in {j \in 1..Len(listing) :
        listing[j].isFile /\ IsGerberFile(listing[j].name)}}

\* C3: when zipFiles returns an archive, its entries are exactly the regular
\* files of the working directory with an allowlisted extension, each once.
C3_ArchiveIsFilteredSet ==
    zipPc = "returned" =>
        /\ Cardinality(ReturnedArchives) = 1
        /\ \A z \in ReturnedArchives :
            /\ Range(z.entries) = AllowlistedNames(cwd)
            /\ Len(z.entries) = Cardinality(AllowlistedNames(cwd))

\* C3's case: the archive holds an allowlisted file the vendor does not require
\* and the directory holds an entry that is left out.
C3_Witness ==
    /\ zipPc = "returned"
    /\ \E z \in ReturnedArchives :
        /\ ExtraEntries[2].name \in Range(z.entries)
        /\ Len(z.entries) > Len(expectedFiles)
    /\ \E i \in 1..Len(cwd) : cwd[i].name \notin AllowlistedNames(cwd)

-----------------------------------------------------------------------------
(* The stack sorter's claims.                                              *)

\* The profiles in the order the sorter tries them for one path.
ProfilePriority ==
    << PCBWAY_REQUIRED_FILES, SEED_STUDIO_REQUIRED_FILES,
       JLCPCB_REQUIRED_FILES, JLCPCB_REQUIRED_FILES_V6 >>

\* The profiles whose first required suffix ends path p.
ProfilesOf(p) == {k \in 1..Len(ProfilePriority) : EndsWith(p, ProfilePriority[k][1])}

\* The positions of the paths that end with some profile's first suffix.
Deciding(list) == {i \in 1..Len(list) : ProfilesOf(list[i]) # {}}

Min(S) == CHOOSE x \in S : \A y \in S : x <= y

SortDone == sortPc \in {"returned", "raised"}

\* C4: the profile used is the first, in priority order, whose first suffix
\* ends the earliest deciding path.
C4_ProfileOfEarliestPath ==
    (SortDone /\ Deciding(fileList) # {}) =>
        mfgFileList = ProfilePriority[Min(ProfilesOf(fileList[Min(Deciding(fileList))]))]

\* C4's case: a JLCPCB-V6 first file comes before a PCBWay first file.
C4_Witness ==
    /\ sortPc = "returned"
    /\ mfgFileList = JLCPCB_REQUIRED_FILES_V6
    /\ \E i, j \in 1..Len(fileList) :
        /\ i < j
        /\ EndsWith(fileList[i], JLCPCB_REQUIRED_FILES_V6[1])
        /\ EndsWith(fileList[j], PCBWAY_REQUIRED_FILES[1])

\* The paths ending with each suffix in turn, each group in input order.
RECURSIVE GroupsFrom(_, _, _)
GroupsFrom(suffixes, list, a) ==
    IF a > Len(suffixes) THEN <<>>
    ELSE SelectSeq(list, LAMBDA p : EndsWith(p, suffixes[a]))
            \o GroupsFrom(suffixes, list, a + 1)

\* One complete JLCPCB-V6 file set, top to bottom, less the drill files.
V6Stack ==
    << <<"t","/","p","-","F","_","C","u",".","g","t","l">>,
       <<"t","/","p","-","B","_","C","u",".","g","b","l">>,
       <<"t","/","p","-","F","_","P","a","s","t","e",".","g","t","p">>,
       <<"t","/","p","-","B","_","P","a","s","t","e",".","g","b","p">>,
       <<"t","/","p","-","F","_","S","i","l","k","s","c","r","e","e","n",".","g","t","o">>,
       <<"t","/","p","-","B","_","S","i","l","k","s","c","r","e","e","n",".","g","b","o">>,
       <<"t","/","p","-","F","_","M","a","s","k",".","g","t","s">>,
       <<"t","/","p","-","B","_","M","a","s","k",".","g","b","s">>,
       <<"t","/","p","-","E","d","g","e","_","C","u","t","s",".","g","m","1">> >>

\* The list is an arrangement of the nine V6 layer files, each once, and one
\* or more drill files.
IsV6FileSet(list) ==
    /\ \A k \in 1..Len(V6Stack) :
        Cardinality({i \in 1..Len(list) : list[i] = V6Stack[k]}) = 1
    /\ \A i \in 1..Len(list) :
        list[i] \in Range(V6Stack) \/ EndsWith(list[i], DrlSuffix)
    /\ \E i \in 1..Len(list) : EndsWith(list[i], DrlSuffix)

\* C5: the output is the concatenation, over the profile's suffixes in table
\* order, of the input paths ending with the suffix, in input order; an
\* arrangement of a JLCPCB-V6 set comes out as F_Cu.gtl, B_Cu.gbl, F_Paste.gtp,
\* B_Paste.gbp, F_Silkscreen.gto, B_Silkscreen.gbo, F_Mask.gts, B_Mask.gbs,
\* Edge_Cuts.gm1 and then the drill files.
C5_OutputIsStackOrder ==
    sortPc = "returned" =>
        /\ sortedFileList = GroupsFrom(mfgFileList, fileList, 1)
        /\ IsV6FileSet(fileList) =>
            sortedFileList =
                V6Stack \o SelectSeq(fileList, LAMBDA p : EndsWith(p, DrlSuffix))

\* C5's case: a JLCPCB-V6 set with two drill files, given out of order.
C5_Witness ==
    /\ sortPc = "returned"
    /\ IsV6FileSet(fileList)
    /\ Len(fileList) = Len(V6Stack) + 2
    /\ sortedFileList # fileList

\* C6: a list with no deciding path, the empty list included, makes the call
\* raise; no list is returned.
C6_NoProfileRaises ==
    (SortDone /\ Deciding(fileList) = {}) =>
        (sortPc = "raised" /\ sortedFileList = <<>>)

\* C6's case: the call raised on a list that holds a drill file.
C6_Witness ==
    /\ sortPc = "raised"
    /\ \E i \in 1..Len(fileList) : EndsWith(fileList[i], DrlSuffix)

\* The list with the paths at positions i and j exchanged.
Swap(list, i, j) ==
    [k \in 1..Len(list) |-> IF k = i THEN list[j] ELSE IF k = j THEN list[i] ELSE list[k]]

\* The call on list ends as the call recorded in the state did.
SameOutcome(list) ==
    LET r == getSortedFileList(list)
    IN  IF r.raised THEN sortPc = "raised"
        ELSE sortPc = "returned" /\ r.value = sortedFileList

\* C7 as claimed: exchanging any two input paths leaves the outcome unchanged
\* (exchanges generate every permutation).
C7_OrderIndependent ==
    SortDone =>
        \A i, j \in 1..Len(fileList) : SameOutcome(Swap(fileList, i, j))

\* All deciding paths select the profile used, and the paths that end with one
\* required suffix of it are all the same path.
OneProfileOnePathPerSuffix ==
    /\ \A i \in Deciding(fileList) :
        ProfilePriority[Min(ProfilesOf(fileList[i]))] = mfgFileList
    /\ \A k \in 1..Len(mfgFileList) : \A i, j \in 1..Len(fileList) :
        (EndsWith(fileList[i], mfgFileList[k]) /\ EndsWith(fileList[j], mfgFileList[k]))
            => fileList[i] = fileList[j]

\* C7 amended: when all deciding paths select one profile and no two different
\* paths end with the same required suffix of it, exchanging any two input
\* paths leaves the outcome unchanged.  The short lists are closed under
\* exchanges, so every permutation of a short list is covered.
C7_OrderIndependentOnePerSuffix ==
    (SortDone /\ OneProfileOnePathPerSuffix) =>
        \A i, j \in 1..Len(fileList) : SameOutcome(Swap(fileList, i, j))

\* C7's case: three different paths, one per suffix, returned in another order
\* than given.
C7_Witness ==
    /\ sortPc = "returned"
    /\ OneProfileOnePathPerSuffix
    /\ Len(fileList) >= 3
    /\ Len(sortedFileList) >= 2
    /\ \A i \in 1..Len(sortedFileList) : sortedFileList[i] # fileList[i]

Count(list, p) == Cardinality({i \in 1..Len(list) : list[i] = p})

\* C8: every path occurs in the output as often as in the input when it ends
\* with a required suffix of the profile used, and not at all otherwise.
C8_OutputIsMatchingPaths ==
    sortPc = "returned" =>
        \A p \in Range(fileList) \cup Range(sortedFileList) :
            Count(sortedFileList, p) =
                IF \E k \in 1..Len(mfgFileList) : EndsWith(p, mfgFileList[k])
                THEN Count(fileList, p) ELSE 0

\* C8's case: a matching path given twice and a path that matches nothing.
C8_Witness ==
    /\ sortPc = "returned"
    /\ \E p \in Range(fileList) : Count(fileList, p) = 2 /\ Count(sortedFileList, p) = 2
    /\ \E p \in Range(fileList) : Count(sortedFileList, p) = 0

-----------------------------------------------------------------------------
(* The BOM reconciler's claims.                                            *)

\* The quoted fields of a line: the texts between an opening and a closing
\* quote; a comma inside the quotes is part of the field.
QuotedFields(line) ==
    LET quotes == PositionsOf(line, "\"")
    IN  [k \in 1..(Len(quotes) \div 2) |->
            SubSeq(line, quotes[2 * k - 1] + 1, quotes[2 * k] - 1)]

\* Comment, designator and footprint are equal ignoring case.
SameKey(a, b) ==
    LET fa == QuotedFields(a)
        fb == QuotedFields(b)
    IN  /\ Len(fa) >= 3 /\ Len(fb) >= 3
        /\ \A k \in 1..3 : Lower(fa[k]) = Lower(fb[k])

\* C9: a fresh line gets an existing line exactly when some existing line has
\* the same first three quoted fields ignoring case, and the line it gets is
\* such a line.
C9_MatchIffSameKey ==
    mergePc = "merged" =>
        \A i \in 1..Len(kicadBOMFile) :
            /\ matchLog[i].found
                <=> \E j \in 1..Len(bomOutputFileLines) :
                        SameKey(kicadBOMFile[i], bomOutputFileLines[j])
            /\ matchLog[i].found => SameKey(kicadBOMFile[i], matchLog[i].line)

\* C10: the merged file has one line per fresh line, in fresh order: an
\* existing line with the fresh line's key when there is one, and the fresh
\* line itself otherwise (line ends apart).
C10_MergedFollowsFresh ==
    mergePc = "merged" =>
        /\ Len(bomOutputFile) = Len(kicadBOMFile)
        /\ \A i \in 1..Len(kicadBOMFile) :
            LET same == {j \in 1..Len(bomOutputFileLines) :
                            SameKey(kicadBOMFile[i], bomOutputFileLines[j])}
            IN  IF same = {}
                THEN RStripNewline(bomOutputFile[i]) = RStripNewline(kicadBOMFile[i])
                ELSE \E j \in same :
                        RStripNewline(bomOutputFile[i]) = RStripNewline(bomOutputFileLines[j])

Max(S) == CHOOSE x \in S : \A y \in S : y <= x

\* C11: of the existing lines with the fresh line's key, _getExistingBOMLine
\* returns the last one in file order, and it returns None when there is no
\* such line.
C11_LastMatchWins ==
    mergePc = "merged" =>
        \A i \in 1..Len(kicadBOMFile) :
            LET same == {j \in 1..Len(bomOutputFileLines) :
                            SameKey(kicadBOMFile[i], bomOutputFileLines[j])}
            IN  IF same = {}
                THEN ~matchLog[i].found
                ELSE /\ matchLog[i].found
                     /\ matchLog[i].line = bomOutputFileLines[Max(same)]

-----------------------------------------------------------------------------
(* The placement rewrite's claims.                                         *)

\* A line that is exactly the KiCad header, its line end apart.
IsExactHeader(line) == RStripNewline(line) = KicadPlacementHeader

ExactHeaders(lines) == {i \in 1..Len(lines) : IsExactHeader(lines[i])}

\* C12: the output has the lines of the input, in order and line ends apart,
\* except that the first line that is exactly the KiCad header is replaced by
\* the JLCPCB header; later header lines and lines that only begin with the
\* header text are kept.
C12_OnlyFirstExactHeaderReplaced ==
    placePc = "saved" =>
        LET lines == placementFiles[assySide].lines
            out   == outputPlacementFiles[assySide].lines
            exact == ExactHeaders(lines)
        IN  /\ Len(out) = Len(lines)
            /\ \A i \in 1..Len(lines) :
                RStripNewline(out[i]) =
                    IF exact # {} /\ i = Min(exact)
                    THEN JlcpcbPlacementHeader
                    ELSE RStripNewline(lines[i])

\* C13: when the placement file has no line that is the KiCad header, the
\* operation raises and the placement files of the output folder stay as
\* they were.
C13_NoHeaderRaisesNoOutput ==
    [][(/\ placePc = "idle"
        /\ placePc' \in {"saved", "raised"}
        /\ ExactHeaders(placementFiles[assySide'].lines) = {})
       => (/\ placePc' = "raised"
           /\ outputPlacementFiles' = outputPlacementFiles)]_vars

-----------------------------------------------------------------------------
(* The BOM editor's claims.                                                *)

\* The part number meant by what was typed: the text itself, or the text
\* between the quotes when it was typed in quotes.
PartNumberTyped(t) ==
    IF t # <<>> /\ t[1] = "\"" THEN QuotedFields(t)[1] ELSE t

\* The steps of the loop in which the user was prompted and typed something.
PromptSteps == {"entry", "first", "last", "next", "back", "abort"}

CursorCommands == { <<"n">>, <<"b">>, <<"f">>, <<"l">> }

\* C14: when a part number is typed at the line of the cursor, the file then
\* has that part number as the fourth field of that line, every other line is
\* as it was (line ends apart), and the cursor is one line further.
C14_EntryWritesLineAtCursor ==
    [][(editPc = "editing" /\ editStep' = "entry")
       => (/\ Len(bomFile') = Len(bomFile)
           /\ LET fields == QuotedFields(bomFile'[lineIndex + 1])
              IN  Len(fields) = 4 /\ fields[4] = PartNumberTyped(typed')
           /\ \A k \in 1..Len(bomFile) :
                k # lineIndex + 1
                    => RStripNewline(bomFile'[k]) = RStripNewline(bomFile[k])
           /\ lineIndex' = lineIndex + 1)]_vars

\* A part number was typed for the second of two part lines, after a move.
C14_Witness ==
    /\ editStep = "entry" /\ editPc = "editing"
    /\ Len(bomFile) = 2 /\ lineIndex = 2
    /\ typed = <<"C","5">>
    /\ QuotedFields(bomFile[2]) = << <<"1","k">>, <<"R","1",",","R","2">>, <<"s">>, <<"C","5">> >>
    /\ QuotedFields(bomFile[1]) = << <<"1","u">>, <<"C","1">>, <<"t">>, <<"C","9">> >>

\* C15: when n, b, f or l is typed at a prompt, the file stays as it is, the
\* session goes on, and the cursor is on a line of the file.
C15_MovesLeaveFile ==
    [][(Prompted /\ editStep' \in PromptSteps /\ typed' \in CursorCommands)
       => (/\ bomFile' = bomFile
           /\ editPc' = "editing"
           /\ entered' = entered
           /\ lineIndex' \in 0..(Len(bomFile) - 1))]_vars

\* The user went back to a line after typing a part number for it.
C15_Witness ==
    /\ editStep = "back" /\ typed = <<"b">>
    /\ lineIndex = 0 /\ 0 \in DOMAIN entered

\* C16: when a is typed at a prompt, the session is aborted and the process
\* ends with status 0, the file as it was, and no error line or traceback
\* printed; nothing is written or printed afterwards.
C16_AbortEndsQuietly ==
    [][/\ (Prompted /\ editStep' \in PromptSteps /\ typed' = <<"a">>)
            => (/\ editPc' = "aborted"
                /\ mainPc' = "exited" /\ exitStatus' = 0
                /\ bomFile' = bomFile
                /\ errorLines' = errorLines /\ ~traceback')
       /\ editPc = "aborted"
            => (bomFile' = bomFile /\ errorLines' = errorLines)]_vars

\* The session was aborted at the second line, after a part number was typed.
C16_Witness ==
    /\ editPc = "aborted" /\ mainPc = "exited"
    /\ lineIndex = 1 /\ 0 \in DOMAIN entered

\* C17: the file on disk has every part number typed so far, the last one
\* typed for each line, whenever the loop is at its head or has ended.
C17_EntriesOnDisk ==
    \A index \in DOMAIN entered :
        LET fields == QuotedFields(bomFile[index + 1])
        IN  Len(fields) = 4 /\ fields[4] = PartNumberTyped(entered[index])

\* The user is prompted for the second line after typing a part number for
\* the first.
C17_Witness ==
    /\ Prompted /\ lineIndex = 1
    /\ editStep = "entry" /\ 0 \in DOMAIN entered

-----------------------------------------------------------------------------
(* The claims on the viewer and on the exit of the program.                *)

\* C18: when gerbvFiles has returned or raised, the temporary directory it
\* made and the files extracted into it are gone, and the rest of the
\* temporary area is as it was.
C18_TempDirRemoved ==
    viewPc \in {"returned", "raised"} =>
        /\ dirpath \notin tempDirs
        /\ \A f \in tempFiles : ~StartsWith(f, dirpath)
        /\ tempDirs = {OtherDir} /\ tempFiles = { OtherDir \o <<"x">> }

\* gerbvFiles raised after it had extracted files: an extraction failed or
\* the sorter knew none of the files.
C18_Witness ==
    /\ viewPc = "raised"
    /\ viewFileList # <<>>
    /\ pending = "Exception"
    /\ dirpath = TempDir

\* C19: when the program ends on a failure that is not an interruption or an
\* abort (and --debug is not given), it has printed one error line and its
\* exit status is not 0.
C19_FailureOneLineNonZero ==
    (/\ mainPc = "exited"
     /\ viewPc = "raised" /\ pending = "Exception"
     /\ ~options.debug)
        => (errorLines = 1 /\ exitStatus # 0)

\* C20: a call of zipFiles in which the project name or the version typed is
\* empty returns without raising, and leaves the archives and the output
\* folders on disk as they were.
C20_EmptyNameIsNoOp ==
    [][(/\ zipPc = "idle"
        /\ zipPc' # "MakeErrorVendor"
        /\ (projectName' = "" \/ projectVersion' = ""))
       => (/\ zipPc' = "returnedNone"
           /\ archives' = archives
           /\ folders' = folders)]_vars

-----------------------------------------------------------------------------
(* The claims on the command line.                                         *)

\* C21: in a run started with --no_preview the viewer is never started:
\* gerbvFiles is not among the calls main makes.
C21_NoPreviewNoViewer ==
    options.no_preview => "gerbvFiles" \notin Range(calls)

\* C22: a run started with --assy in which zipFiles built an archive for
\* JLCPCB calls updateAssyFiles before it shows the archive or ends,
\* whichever viewer is chosen.
C22_AssyProcessesBomAndPlacement ==
    (/\ mainPc \in {"gerbvFiles", "exited"}
     /\ options.assy
     /\ zipResult = "archive" /\ mfg = VENDOR_JLCPCB)
        => "updateAssyFiles" \in Range(calls)

\* C23: a run started with --view_zip builds no archive and shows an
\* existing one: it has called gerbvFiles, and not zipFiles, when it ends.
C23_ViewZipShowsArchive ==
    (mainPc = "exited" /\ options.view_zip)
        => (/\ "zipFiles" \notin Range(calls)
            /\ "gerbvFiles" \in Range(calls))

-----------------------------------------------------------------------------
(* The claims on BOM lines with a wrong number of fields, on the editor's   *)
(* commands and on the lines it rewrites.                                  *)

\* C24: the reconciliation fails on a BOM line that has neither three nor
\* four quoted fields: when the merge has written the output BOM, no such
\* line is in it.
C24_WrongFieldCountNeverCopied ==
    mergePc = "merged" =>
        \A i \in 1..Len(bomOutputFile) :
            Len(QuotedFields(bomOutputFile[i])) \in {3, 4}

\* C25: a command letter typed in upper case at a prompt is taken as the
\* command: the file stays as it is and no line is rewritten.
C25_UpperCaseIsCommand ==
    [][(Prompted /\ editStep' \in PromptSteps /\ Lower(typed') \in MoveCommands)
       => (bomFile' = bomFile /\ editStep' # "entry")]_vars

\* C27: when a part number is typed, the rewritten line has four fields and
\* its comment, designator and footprint are those of the line before, in
\* the same positions.
C27_OnlyPartNumberChanges ==
    [][(editPc = "editing" /\ editStep' = "entry")
       => LET old == QuotedFields(bomFile[lineIndex + 1])
              new == QuotedFields(bomFile'[lineIndex + 1])
          IN  /\ Len(new) = 4
              /\ \A k \in 1..3 : new[k] = old[k]]_vars

\* C26: when the project's BOM is in the working directory or its parent, a
\* call of _getBomFile returns the output BOM (copied or merged) and does
\* not raise.
C26_BomFoundReturnsOutput ==
    (getBomPc \notin {"idle", "unused"} /\ FoundBOMFile(cwd, parentFiles, projectName))
        => (/\ getBomPc = "returned"
            /\ <<projectName, projectVersion>> \in DOMAIN outputBoms)

-----------------------------------------------------------------------------
(* The claim on the archive built and then shown.                          *)

\* C28: when the archive zipFiles built for a vendor has been extracted and
\* sorted, the sorter has taken the table of that vendor, and every archived
\* file ending with a suffix of that table is in the list given to the
\* viewer.
C28_BuiltArchiveSortedAsBuilt ==
    (zipPc = "returned" /\ viewPc = "view")
        => /\ InferMfgFileList([i \in 1..Len(zipFile.names) |->
                                    dirpath \o zipFile.names[i]], 1) = expectedFiles
           /\ \A i \in 1..Len(zipFile.names) :
                (\E k \in 1..Len(expectedFiles) :
                        EndsWith(zipFile.names[i], expectedFiles[k]))
                    => (dirpath \o zipFile.names[i]) \in Range(viewFileList)

-----------------------------------------------------------------------------
(* The claim on the editor's cursor and on the end of a session.           *)

\* The steps of the loop in which the user typed a command or CTRL C.
CommandSteps == {"first", "last", "next", "back", "abort", "interrupt"}

\* From some point on the user types part numbers only.
OnlyPartNumbersTyped == <>[][editStep' \notin CommandSteps]_vars

\* The session was ended by the error raised for the line of the cursor,
\* which has not three or four fields.
RaisedAtInvalidLine ==
    /\ editPc = "raised"
    /\ lineIndex < Len(bomFile)
    /\ Len(FieldList(CurrentLine)) # 4

\* C29 (as stated): the cursor is from 0 to the number of lines, the session
\* is done only with the cursor at the number of lines, and a session in
\* which from some point on only part numbers are typed comes to an end, and
\* the end it comes to by such a step is Done.
C29_EntriesReachDone ==
    /\ [](lineIndex \in 0..Len(bomFile))
    /\ [](editPc = "done" => lineIndex = Len(bomFile))
    /\ OnlyPartNumbersTyped => <>(editPc # "editing")
    /\ [][(editPc = "editing" /\ editStep' \notin CommandSteps)
            => editPc' \in {"editing", "done"}]_vars

\* C29: the cursor is from 0 to the number of lines; the session is done only
\* with the cursor at the number of lines, and with the cursor there it does
\* nothing but end; a part number typed, like a header passed, moves the
\* cursor on by one line and the file keeps its number of lines; a session
\* in which from some point on only part numbers are typed comes to an end,
\* and the end it comes to by such a step is Done, or the error raised at a
\* line that has not three or four fields.
C29_CursorBoundedEntriesFinish ==
    /\ [](lineIndex \in 0..Len(bomFile))
    /\ [](editPc = "done" => lineIndex = Len(bomFile))
    /\ [][(editPc = "editing" /\ lineIndex = Len(bomFile)) => editPc' = "done"]_vars
    /\ [][editStep' \in {"entry", "header"}
            => (lineIndex' = lineIndex + 1 /\ Len(bomFile') = Len(bomFile))]_vars
    /\ OnlyPartNumbersTyped => <>(editPc # "editing")
    /\ [][(editPc = "editing" /\ editStep' \notin CommandSteps)
            => (editPc' \in {"editing", "done"} \/ RaisedAtInvalidLine')]_vars

\* The session is done after a part number was typed for each of two lines.
C29_Witness ==
    /\ editPc = "done" /\ editStep = "completed"
    /\ Len(bomFile) = 2 /\ DOMAIN entered = {0, 1}

-----------------------------------------------------------------------------
(* The claim on the search parameters.                                     *)

\* C30: at the menu of the parts search the order field ID is from 1 to the
\* number of fields of the field list, and the column width list has as
\* many entries as the field list.
C30_SearchParametersConsistent ==
    searchPc = "menu" =>
        /\ 1 <= orderFieldID /\ orderFieldID <= Len(dbFieldList)
        /\ Len(columnWidthList) = Len(dbFieldList)

=============================================================================
